---- MODULE Spec2Model ----
(***************************************************************************)
(* A model of gtnh-toolkit: the Voltage / VoltageTier arithmetic, the      *)
(* overclock policies applied at recipe construction, and the flow-network *)
(* linear program that solve builds.                                       *)
(*                                                                         *)
(* Python floats are modelled by exact rationals (numerator, denominator); *)
(* the durations, voltages and quotients the model draws are small enough  *)
(* that the float results coincide with the exact ones.                    *)
(***************************************************************************)
EXTENDS Integers, Sequences, FiniteSets, TLC

VARIABLES
    volt,      \* Voltage.voltage of the Voltage object under observation
    origin,    \* how that object was made: [op, arg]
    req,       \* arguments of the last recipe construction
    recipe,    \* <<r>> when the constructor returned recipe r, <<>> otherwise
    raised,    \* name of the exception the constructor raised, "" if none
    pc,        \* position of the solver process: "config", "solved", "raised"
    config,    \* the recipes and the target handed to solve
    model,     \* the components of the pyomo model, in declaration order
    exc,       \* name of the exception solve raised, "" if none
    earlier,   \* the earlier invocation of solve in this process, if any
    parsed,    \* what build_solution_graph's patterns filter out of the model
    time,      \* the GameTime value under observation and what was read off it
    solution,  \* the values solver.solve left in the variables of the model
    calc,      \* the last GameTime or Voltage operation: operands, result, exception
    item_cache, \* the cache of make_item and the calls made to the item factories
    graph      \* the graph build_solution_graph is building, with its name-to-node map

vars == <<volt, origin, req, recipe, raised, pc, config, model, exc, earlier, parsed, time, solution, calc, item_cache, graph>>

-----------------------------------------------------------------------------
(* Bounds of the model.                                                    *)

MaxSmallVolt == 140     \* constructor arguments -2 .. MaxSmallVolt
MaxMachineTier == 4     \* machine tiers LV .. EV at recipe construction
MaxTicks == 10          \* recipe durations 0 .. MaxTicks (and 200)
MaxEut == 40            \* base voltages 0 .. MaxEut (and tier boundaries)
MaxRecipes == 2         \* recipes handed to solve
MaxTimeTicks == 60      \* GameTime.from_ticks(0 .. MaxTimeTicks)
MaxEighths == 40        \* GameTime.from_seconds(0 .. MaxEighths / 8)
MaxTargetSteps == 30    \* targets of 50 .. 50 * MaxTargetSteps per second
MaxOps == 2             \* arithmetic operations applied in a row to one value
MaxNameLen == 3         \* characters of an item name
MaxCalls == 2           \* calls made to the item factories

-----------------------------------------------------------------------------
(* Arithmetic helpers.                                                     *)

Max(a, b) == IF a >= b THEN a ELSE b

Min(a, b) == IF a <= b THEN a ELSE b

\* math.ceil(n / d) for n >= 0, d > 0
CeilDiv(n, d) == (n + d - 1) \div d

\* math.floor(log(n, 4)) for an integer n >= 1
RECURSIVE FloorLog4(_)
FloorLog4(n) == IF n < 4 THEN 0 ELSE 1 + FloorLog4(n \div 4)

-----------------------------------------------------------------------------
(* gamelogic/Electricity.py                                                *)

LV == 1

UXV == 13

MAX == 14

\* Tiers whose canonical voltage fits the model checker's 32-bit integers
\* (from_tier(MAX) = 2^31 does not).
RepresentableTiers == LV..UXV

\* VoltageTier.from_tier_num: clamp into LV..MAX
from_tier_num(tier_num) == Max(1, Min(14, tier_num))

\* A mutant of Voltage: the argument is stored as it is.
Voltage_unclamped(voltage) == voltage

\* Voltage.__init__: a negative argument is clamped to 0
Voltage(voltage) == Max(0, voltage)

\* int(n / d) for d > 0: truncation towards zero
Trunc(n, d) == IF n >= 0 THEN n \div d ELSE 0 - ((0 - n) \div d)

\* Voltage.__add__ and __radd__ with a Voltage or an int
Voltage_add(self, other) == Voltage(self + other)

\* Voltage.__sub__ with a Voltage or an int
Voltage_sub(self, other) == Voltage(self - other)

\* Voltage.__rsub__ with an int
Voltage_rsub(self, other) == Voltage(other - self)

\* Voltage.__mul__ and __rmul__ with the scalar num / den: int(self.voltage * other)
Voltage_mul(self, num, den) == Voltage(Trunc(self * num, den))

\* math.floor(math.log(voltage / 32, 4)) for voltage >= 8
floor_log4_div32(voltage) ==
    IF voltage >= 32 THEN FloorLog4(voltage \div 32) ELSE 0 - 1

\* A mutant of tier: the boundary rounded up instead of down.
tier_ceil(voltage) ==
    IF voltage <= 32 THEN LV
    ELSE from_tier_num(FloorLog4((voltage - 1) \div 32) + 2)

\* Voltage.tier
tier(voltage) ==
    IF voltage = 0 THEN LV
    ELSE IF voltage < 8 THEN LV
    ELSE from_tier_num(floor_log4_div32(Max(1, voltage)) + 2)

\* A mutant of from_tier: the series starts from 8 volts.
from_tier_base8(t) == Voltage(8 * (4 ^ (t - 1)))

\* Voltage.from_tier
from_tier(t) == Voltage(32 * (4 ^ (t - 1)))

-----------------------------------------------------------------------------
(* gamelogic/game_time.py: a GameTime holds seconds; the float is the      *)
(* rational num / den.                                                     *)

TICKS_PER_SECOND == 20

\* GameTime.from_ticks
from_ticks(ticks) == [num |-> ticks, den |-> TICKS_PER_SECOND]

\* GameTime.from_seconds
from_seconds(seconds) == seconds

\* A mutant of as_ticks: the product is truncated.
as_ticks_floor(t) == (t.num * TICKS_PER_SECOND) \div t.den

\* GameTime.as_ticks
as_ticks(t) == CeilDiv(t.num * TICKS_PER_SECOND, t.den)

\* round(x) of a fraction x >= 0.  The code rounds a quotient of binary
\* floating-point numbers: away from a half it is the nearest integer, at a
\* half the quotient is the half itself (round gives the even neighbour) or
\* the float just below it (round gives the lower neighbour).
Round(x) ==
    LET lower == x.num \div x.den
        rest == x.num - lower * x.den
    IN IF 2 * rest < x.den THEN {lower}
       ELSE IF 2 * rest > x.den THEN {lower + 1}
       ELSE {lower, IF lower % 2 = 0 THEN lower ELSE lower + 1}

\* roundToBase(x, base) with base = 1 / base_den: float(base * round(x / base))
roundToBase(x, base_den) ==
    {[num |-> r, den |-> base_den] : r \in Round([num |-> x.num * base_den, den |-> x.den])}

\* GameTime.as_seconds: roundToBase(self._internal_seconds / TICKS_PER_SECOND, 0.05)
as_seconds(t) == roundToBase([num |-> t.num, den |-> t.den * TICKS_PER_SECOND], 20)

\* GameTime.as_exact_seconds
as_exact_seconds(t) == t

\* gamelogic/GameTime.py, the revision that stores ticks.
\* GameTime.from_ticks
GameTime_from_ticks(ticks) == ticks

\* GameTime.from_seconds: math.ceil(seconds * TICKS_PER_SECOND)
GameTime_from_seconds(seconds) == CeilDiv(seconds.num * TICKS_PER_SECOND, seconds.den)

\* GameTime.as_ticks
GameTime_as_ticks(ticks) == ticks

\* GameTime.as_seconds: self._ticks / TICKS_PER_SECOND
GameTime_as_seconds(ticks) == [num |-> ticks, den |-> TICKS_PER_SECOND]

\* SolutionGraph(), and an empty link_name_to_node_map
NoGraph == [nodes |-> <<>>, edges |-> <<>>, map |-> <<>>, exc |-> ""]

\* an empty cache, no call made
NoItems == [cache |-> <<>>, calls |-> <<>>]

\* no operation yet
NoCalc ==
    [op |-> "none", left |-> [num |-> 0, den |-> 1], right |-> [num |-> 0, den |-> 1],
     exc |-> "", steps |-> 0]

\* no solver has run
NoSolution == [seconds |-> "", values |-> <<>>]

\* no GameTime made, nothing read
NoTime ==
    [op |-> "none", arg |-> [num |-> 0, den |-> 1],
     seconds |-> [num |-> 0, den |-> 1], ticks |-> 0,
     read |-> "none", game_time |-> [num |-> 0, den |-> 1], exact |-> [num |-> 0, den |-> 1],
     GameTime |-> [num |-> 0, den |-> 1]]

-----------------------------------------------------------------------------
(* Overclock policies.  Each returns [raised, duration, eu, parallels].    *)

Raise(name) == [raised |-> name, duration |-> from_ticks(0), eu |-> 0, parallels |-> 0]

Return(duration, eu, parallels) ==
    [raised |-> "", duration |-> duration, eu |-> eu, parallels |-> parallels]

\* A mutant of ceil_max1: the quotient truncated instead of rounded up.
floor_max1(num, den) == IF num <= den THEN 1 ELSE num \div den

\* math.ceil(max(1, num / den)) for num >= 0, den > 0
ceil_max1(num, den) == IF num <= den THEN 1 ELSE CeilDiv(num, den)

\* new duration of the standard and perfect policies
new_duration_ticks(original_ticks, speed_factor, tier_difference) ==
    ceil_max1(original_ticks, speed_factor ^ tier_difference)

\* A mutant of the standard policy: a recipe of the machine's own tier is refused.
apply_standard_overclock_strict(machine_tier, duration, eu_per_gametick) ==
    IF machine_tier <= tier(eu_per_gametick) THEN Raise("ValueError")
    ELSE LET tier_difference == machine_tier - tier(eu_per_gametick)
         IN Return(from_ticks(new_duration_ticks(as_ticks(duration), 2, tier_difference)),
                   Voltage(eu_per_gametick * (4 ^ tier_difference)), 1)

\* StandardOverclockMachineRecipe.__apply_standard_overclock
apply_standard_overclock(machine_tier, duration, eu_per_gametick) ==
    IF machine_tier < tier(eu_per_gametick) THEN Raise("ValueError")
    ELSE IF machine_tier = tier(eu_per_gametick)
    THEN Return(duration, eu_per_gametick, 1)
    ELSE LET tier_difference == machine_tier - tier(eu_per_gametick)
             original_ticks == as_ticks(duration)
         IN Return(from_ticks(new_duration_ticks(original_ticks, 2, tier_difference)),
                   Voltage(eu_per_gametick * (4 ^ tier_difference)), 1)

\* PerfectOverclockMachineRecipe.__apply_perfect_overclock (durations are
\* GameTicks there; they are carried as the GameTime of that many ticks)
apply_perfect_overclock(machine_tier, duration, eu_per_gametick) ==
    IF machine_tier < tier(eu_per_gametick) THEN Raise("ValueError")
    ELSE IF machine_tier = tier(eu_per_gametick)
    THEN Return(duration, eu_per_gametick, 1)
    ELSE LET tier_difference == machine_tier - tier(eu_per_gametick)
         IN Return(from_ticks(new_duration_ticks(as_ticks(duration), 4, tier_difference)),
                   eu_per_gametick * (4 ^ tier_difference), 1)

\* int(x * 4 ** e) for integers x >= 0 and e
scale_pow4(x, e) == IF e >= 0 THEN x * (4 ^ e) ELSE x \div (4 ^ (0 - e))

\* IndustrialCentrifugeRecipe.__apply_overclock
apply_overclock(machine_tier, duration, eu_per_gametick) ==
    IF machine_tier < tier(eu_per_gametick) THEN Raise("ValueError")
    ELSE LET max_parallels == machine_tier * 2
         IN IF eu_per_gametick * 9 * max_parallels = 0
            THEN Raise("ZeroDivisionError")
            ELSE LET \* max_voltage // (voltage * 0.9 * max_parallels)
                     parallels == Min(max_parallels,
                                      (10 * from_tier(machine_tier))
                                          \div (9 * eu_per_gametick * max_parallels))
                     tier_difference ==
                         machine_tier - tier(Voltage(eu_per_gametick * parallels))
                     original_ticks == as_ticks(duration)
                     \* original_ticks / (1.8 * 4.0 ** tier_difference)
                     new_duration_ticks_c ==
                         IF tier_difference >= 0
                         THEN ceil_max1(10 * original_ticks, 18 * (4 ^ tier_difference))
                         ELSE ceil_max1(10 * original_ticks * (4 ^ (0 - tier_difference)), 18)
                     \* recipe_voltage * 0.9 * 4 ** tier_difference
                     new_eu == Voltage(scale_pow4(Voltage((9 * eu_per_gametick) \div 10),
                                                  tier_difference))
                 IN Return(from_ticks(new_duration_ticks_c), new_eu, parallels)

\* ItemStack(stack.item, stack.quantity * parallels) for every stack
scale_stacks(stacks, parallels) ==
    [i \in 1..Len(stacks) |->
        [item |-> stacks[i].item, quantity |-> stacks[i].quantity * parallels]]

\* The recipe object a constructor leaves behind.
MakeRecipe(machine_tier, inputs, outputs, r) ==
    [machine_tier |-> machine_tier,
     inputs |-> scale_stacks(inputs, r.parallels),
     outputs |-> scale_stacks(outputs, r.parallels),
     duration |-> r.duration,
     eu_per_gametick |-> r.eu,
     parallels |-> r.parallels]

-----------------------------------------------------------------------------
(* State machine of the Voltage object.                                    *)

VoltInputs ==
    ((0 - 2)..MaxSmallVolt)
        \cup {from_tier(t) + d : t \in RepresentableTiers, d \in {0 - 1, 0, 1}}
        \cup {2147483647}

NoRequest == [policy |-> "none", machine_tier |-> LV, ticks |-> 0, eut |-> 0]

NoConfig == [recipes |-> <<>>, target |-> [item |-> <<"none">>, quantity_per_second |-> 0]]

EmptyModel == <<>>

NoEarlier == [config |-> NoConfig, model |-> EmptyModel, exc |-> ""]

NotParsed ==
    [machines |-> <<>>, sources |-> <<>>, source_outs |-> <<>>, sinks |-> <<>>,
     sink_ins |-> <<>>, links |-> <<>>, machine_inputs |-> <<>>, machine_outputs |-> <<>>]

IdleRecipe == req = NoRequest /\ recipe = <<>> /\ raised = ""

IdleSolver ==
    /\ pc = "config" /\ config = NoConfig /\ model = EmptyModel /\ exc = ""
    /\ earlier = NoEarlier /\ parsed = NotParsed /\ time = NoTime /\ solution = NoSolution /\ calc = NoCalc /\ item_cache = NoItems /\ graph = NoGraph

IdleVoltage == volt = 0 /\ origin = [op |-> "init", arg |-> 0]

\* Voltage(v)
VoltageNew(v) ==
    /\ volt' = Voltage(v)
    /\ origin' = [op |-> "init", arg |-> v]
    /\ UNCHANGED <<req, recipe, raised, pc, config, model, exc, earlier, parsed, time, solution, calc, item_cache, graph>>

\* Voltage.from_tier(t)
VoltageFromTier(t) ==
    /\ volt' = from_tier(t)
    /\ origin' = [op |-> "from_tier", arg |-> t]
    /\ UNCHANGED <<req, recipe, raised, pc, config, model, exc, earlier, parsed, time, solution, calc, item_cache, graph>>

InitVoltage == IdleVoltage /\ IdleRecipe /\ IdleSolver

NextVoltage ==
    \/ \E v \in VoltInputs : VoltageNew(v)
    \/ \E t \in RepresentableTiers : VoltageFromTier(t)

SpecVoltage == InitVoltage /\ [][NextVoltage]_vars

-----------------------------------------------------------------------------
(* State machine of Voltage arithmetic: a Voltage is made and then added   *)
(* to, subtracted from, subtracted from a number and multiplied.           *)

\* the Voltages and ints on the other side of + and -
Addends == {0 - 200, 0 - 3, 0 - 1, 0, 1, 2, 8, 32, 50, 128, 200}

\* the scalars of *, in halves
Factors == (0 - 4)..8

VoltResult(op, right, result) ==
    /\ result <= 4 * MaxSmallVolt
    /\ volt' = result
    /\ origin' = [op |-> op, arg |-> right.num]
    /\ calc' = [op |-> op, left |-> [num |-> volt, den |-> 1], right |-> right, exc |-> "",
                steps |-> 0]
    /\ UNCHANGED <<req, recipe, raised, pc, config, model, exc, earlier, parsed, time, solution, item_cache, graph>>

\* v + w, w + v
VoltageAdd(w) == VoltResult("add", [num |-> w, den |-> 1], Voltage_add(volt, w))

\* v - w
VoltageSub(w) == VoltResult("sub", [num |-> w, den |-> 1], Voltage_sub(volt, w))

\* w - v
VoltageRsub(w) == VoltResult("rsub", [num |-> w, den |-> 1], Voltage_rsub(volt, w))

\* v * (k / 2), (k / 2) * v
VoltageMul(k) == VoltResult("mul", [num |-> k, den |-> 2], Voltage_mul(volt, k, 2))

InitVoltArith == IdleVoltage /\ IdleRecipe /\ IdleSolver

NextVoltArith ==
    \/ \E v \in (0 - 2)..MaxSmallVolt : calc = NoCalc /\ VoltageNew(v)
    \/ \E w \in Addends : VoltageAdd(w)
    \/ \E w \in Addends : VoltageSub(w)
    \/ \E w \in Addends : VoltageRsub(w)
    \/ \E k \in Factors : VoltageMul(k)

SpecVoltArith == InitVoltArith /\ [][NextVoltArith]_vars

-----------------------------------------------------------------------------
(* State machine of recipe construction.                                   *)

MachineTiers == LV..MaxMachineTier

TickInputs == (0..MaxTicks) \cup {200}

EutInputs == (0..MaxEut) \cup {100, 127, 128, 129, 511, 512, 513}

BaseInputs == <<[item |-> "a", quantity |-> 3]>>

BaseOutputs == <<[item |-> "b", quantity |-> 5]>>

Requests ==
    [policy : {"standard", "perfect", "centrifuge"}, machine_tier : MachineTiers,
     ticks : TickInputs, eut : EutInputs]

NotConstructed == recipe = <<>> /\ raised = ""

\* The recipe a constructor returns given the result r of its overclock policy:
\* none when the policy raised.
Constructed(machine_tier, r) ==
    IF r.raised = "" THEN <<MakeRecipe(machine_tier, BaseInputs, BaseOutputs, r)>>
    ELSE <<>>

\* StandardOverclockMachineRecipe(name, tier, inputs, outputs, from_ticks(dur), Voltage(eut))
ConstructStandard ==
    /\ req.policy = "standard" /\ NotConstructed
    /\ LET r == apply_standard_overclock(req.machine_tier, from_ticks(req.ticks),
                                         Voltage(req.eut))
       IN /\ raised' = r.raised
          /\ recipe' = Constructed(req.machine_tier, r)
    /\ UNCHANGED <<volt, origin, req, pc, config, model, exc, earlier, parsed, time, solution, calc, item_cache, graph>>

\* PerfectOverclockMachineRecipe(name, tier, inputs, outputs, dur, eut)
ConstructPerfect ==
    /\ req.policy = "perfect" /\ NotConstructed
    /\ LET r == apply_perfect_overclock(req.machine_tier, from_ticks(req.ticks), req.eut)
       IN /\ raised' = r.raised
          /\ recipe' = Constructed(req.machine_tier, r)
    /\ UNCHANGED <<volt, origin, req, pc, config, model, exc, earlier, parsed, time, solution, calc, item_cache, graph>>

\* IndustrialCentrifugeRecipe(name, tier, inputs, outputs, from_ticks(dur), Voltage(eut))
ConstructCentrifuge ==
    /\ req.policy = "centrifuge" /\ NotConstructed
    /\ LET r == apply_overclock(req.machine_tier, from_ticks(req.ticks), Voltage(req.eut))
       IN /\ raised' = r.raised
          /\ recipe' = Constructed(req.machine_tier, r)
    /\ UNCHANGED <<volt, origin, req, pc, config, model, exc, earlier, parsed, time, solution, calc, item_cache, graph>>

InitRecipe ==
    /\ IdleVoltage /\ IdleSolver
    /\ req \in Requests /\ recipe = <<>> /\ raised = ""

NextRecipe == ConstructStandard \/ ConstructPerfect \/ ConstructCentrifuge

SpecRecipe == InitRecipe /\ [][NextRecipe]_vars

-----------------------------------------------------------------------------
(* State machine of GameTime: a value is made by from_ticks or             *)
(* from_seconds, in both revisions of the class, and then read.            *)

\* the durations in seconds the model passes to from_seconds: eighths
SecondsInputs == {[num |-> k, den |-> 8] : k \in 0..MaxEighths}

Made(op, arg, seconds, ticks) ==
    [NoTime EXCEPT !.op = op, !.arg = arg, !.seconds = seconds, !.ticks = ticks]

\* GameTime.from_ticks(n)
FromTicks(n) ==
    /\ time.op = "none"
    /\ time' = Made("from_ticks", [num |-> n, den |-> 1], from_ticks(n), GameTime_from_ticks(n))
    /\ UNCHANGED <<volt, origin, req, recipe, raised, pc, config, model, exc, earlier, parsed, solution, calc, item_cache, graph>>

\* GameTime.from_seconds(s)
FromSeconds(s) ==
    /\ time.op = "none"
    /\ time' = Made("from_seconds", s, from_seconds(s), GameTime_from_seconds(s))
    /\ UNCHANGED <<volt, origin, req, recipe, raised, pc, config, model, exc, earlier, parsed, solution, calc, item_cache, graph>>

\* t.as_seconds() and t.as_exact_seconds()
AsSeconds ==
    /\ time.op # "none" /\ time.read = "none"
    /\ \E result \in as_seconds(time.seconds) :
           time' = [time EXCEPT !.read = "as_seconds",
                                !.game_time = result,
                                !.exact = as_exact_seconds(time.seconds),
                                !.GameTime = GameTime_as_seconds(time.ticks)]
    /\ UNCHANGED <<volt, origin, req, recipe, raised, pc, config, model, exc, earlier, parsed, solution, calc, item_cache, graph>>

\* t.as_ticks()
AsTicks ==
    /\ time.op # "none" /\ time.read = "none"
    /\ time' = [time EXCEPT !.read = "as_ticks",
                            !.game_time = [num |-> as_ticks(time.seconds), den |-> 1],
                            !.GameTime = [num |-> GameTime_as_ticks(time.ticks), den |-> 1]]
    /\ UNCHANGED <<volt, origin, req, recipe, raised, pc, config, model, exc, earlier, parsed, solution, calc, item_cache, graph>>

InitTime == IdleVoltage /\ IdleRecipe /\ IdleSolver

NextTime ==
    \/ \E n \in 0..MaxTimeTicks : FromTicks(n)
    \/ \E s \in SecondsInputs : FromSeconds(s)
    \/ AsSeconds
    \/ AsTicks

SpecTime == InitTime /\ [][NextTime]_vars

-----------------------------------------------------------------------------
(* Arithmetic of GameTime (game_time.py).  An operation returns the set of *)
(* its possible outcomes [exc, seconds]: as_seconds may round either way   *)
(* at a half.                                                              *)

\* GameTime(seconds): __post_init__ raises on a negative duration
GameTimeNew(seconds) ==
    IF seconds.num < 0
    THEN [exc |-> "ValueError", seconds |-> seconds]
    ELSE [exc |-> "", seconds |-> seconds]

\* GameTime.from_ticks with its argument checks, ticks an int
from_ticks_checked(ticks) ==
    IF ticks < 0
    THEN [exc |-> "ValueError", seconds |-> [num |-> ticks, den |-> TICKS_PER_SECOND]]
    ELSE GameTimeNew(from_ticks(ticks))

\* GameTime.from_seconds with its argument check
from_seconds_checked(seconds) ==
    IF seconds.num < 0
    THEN [exc |-> "ValueError", seconds |-> seconds]
    ELSE GameTimeNew(from_seconds(seconds))

Plus(x, y) == [num |-> x.num * y.den + y.num * x.den, den |-> x.den * y.den]

Minus(x, y) == [num |-> x.num * y.den - y.num * x.den, den |-> x.den * y.den]

\* GameTime.__add__
add(self, other) ==
    {from_seconds_checked(Plus(l, r)) : l \in as_seconds(self), r \in as_seconds(other)}

\* GameTime.__sub__
sub(self, other) ==
    {from_seconds_checked(Minus(l, r)) : l \in as_seconds(self), r \in as_seconds(other)}

\* GameTime.__mul__ and __rmul__, the scalar an int
mul(self, scalar) ==
    IF scalar < 0
    THEN {[exc |-> "ValueError", seconds |-> self]}
    ELSE {from_seconds_checked([num |-> l.num * scalar, den |-> l.den]) : l \in as_seconds(self)}

\* GameTime.__truediv__, the scalar an int
truediv(self, scalar) ==
    IF scalar <= 0
    THEN {[exc |-> "ValueError", seconds |-> self]}
    ELSE {from_seconds_checked([num |-> l.num, den |-> l.den * scalar]) : l \in as_seconds(self)}

Scalars == (0 - 1)..3

\* the outcome of an operation becomes the value under observation, or the
\* exception is recorded and the value stays
Outcome(op, left, right, outcome) ==
    /\ calc' = [op |-> op, left |-> left, right |-> right, exc |-> outcome.exc,
                steps |-> calc.steps + 1]
    /\ time' = IF outcome.exc = ""
               THEN [time EXCEPT !.op = op, !.arg = right, !.seconds = outcome.seconds]
               ELSE time
    /\ UNCHANGED <<volt, origin, req, recipe, raised, pc, config, model, exc, earlier, parsed, solution, item_cache, graph>>

\* GameTime.from_ticks(n), n possibly negative
NewFromTicks(n) ==
    /\ time.op = "none" /\ calc = NoCalc
    /\ Outcome("from_ticks", NoCalc.left, [num |-> n, den |-> 1], from_ticks_checked(n))

\* GameTime.from_seconds(s), s possibly negative
NewFromSeconds(s) ==
    /\ time.op = "none" /\ calc = NoCalc
    /\ Outcome("from_seconds", NoCalc.left, s, from_seconds_checked(s))

Operable == time.op # "none" /\ calc.exc = "" /\ calc.steps <= MaxOps

\* t + GameTime.from_seconds(s)
TimeAdd(s) ==
    /\ Operable
    /\ \E outcome \in add(time.seconds, from_seconds(s)) : Outcome("add", time.seconds, s, outcome)

\* t - GameTime.from_seconds(s)
TimeSub(s) ==
    /\ Operable
    /\ \E outcome \in sub(time.seconds, from_seconds(s)) : Outcome("sub", time.seconds, s, outcome)

\* t * k and k * t
TimeMul(k) ==
    /\ Operable
    /\ \E outcome \in mul(time.seconds, k) :
           Outcome("mul", time.seconds, [num |-> k, den |-> 1], outcome)

\* t / k
TimeDiv(k) ==
    /\ Operable
    /\ \E outcome \in truediv(time.seconds, k) :
           Outcome("truediv", time.seconds, [num |-> k, den |-> 1], outcome)

InitArith == IdleVoltage /\ IdleRecipe /\ IdleSolver

NextArith ==
    \/ \E n \in (0 - 1)..MaxTimeTicks : NewFromTicks(n)
    \/ \E s \in SecondsInputs \cup {[num |-> 0 - 1, den |-> 8]} : NewFromSeconds(s)
    \/ \E s \in SecondsInputs : TimeAdd(s)
    \/ \E s \in SecondsInputs : TimeSub(s)
    \/ \E k \in Scalars : TimeMul(k)
    \/ \E k \in Scalars : TimeDiv(k)

SpecArith == InitArith /\ [][NextArith]_vars

-----------------------------------------------------------------------------
(* solver.py.  A variable or constraint-list name is the sequence of the   *)
(* parts its "_" separate; an item is known by its name.  A Python dict is *)
(* the sequence of its entries [key, val] in insertion order.              *)

RECURSIVE Flatten(_)
Flatten(ss) == IF ss = <<>> THEN <<>> ELSE Head(ss) \o Flatten(Tail(ss))

DictHas(d, k) == \E n \in 1..Len(d) : d[n].key = k

\* d[k] of a defaultdict(list), read without inserting
DictGet(d, k) ==
    IF DictHas(d, k) THEN d[CHOOSE n \in 1..Len(d) : d[n].key = k].val ELSE <<>>

\* d[k].append(v) on a defaultdict(list)
DictAppend(d, k, v) ==
    IF DictHas(d, k)
    THEN [n \in 1..Len(d) |->
             IF d[n].key = k THEN [key |-> k, val |-> Append(d[n].val, v)] ELSE d[n]]
    ELSE Append(d, [key |-> k, val |-> <<v>>])

\* d[p.key].append(p.val) for every p of pairs, in order
RECURSIVE DictAppendAll(_, _)
DictAppendAll(d, pairs) ==
    IF pairs = <<>> THEN d
    ELSE DictAppendAll(DictAppend(d, Head(pairs).key, Head(pairs).val), Tail(pairs))

DictKeys(d) == [n \in 1..Len(d) |-> d[n].key]

\* f'M{machine_index}'
machine_name(machine_index) == <<"M" \o ToString(machine_index)>>

\* f'{machine_name}_IN_{itemstack.item.name}'
item_in_link(machine, item) == machine \o <<"IN">> \o item

\* f'{machine_name}_OUT_{itemstack.item.name}'
item_out_link(machine, item) == machine \o <<"OUT">> \o item

source_name(item) == <<"SOURCE">> \o item

source_out_name(item) == <<"SOURCE", "OUT">> \o item

sink_name(item) == <<"SINK">> \o item

sink_in_name(item) == <<"SINK", "IN">> \o item

source_tax_name(item) == <<"SOURCE", "TAX">> \o item

\* f'{out_link}_TO_{in_link}'
link_name(out_link, in_link) == out_link \o <<"TO">> \o in_link

\* The statements solve executes on the model.
SetVar(name, domain) ==
    [op |-> "setattr",
     comp |-> [name |-> name, kind |-> "Var", domain |-> domain, rows |-> <<>>]]

SetList(name) ==
    [op |-> "setattr",
     comp |-> [name |-> name, kind |-> "ConstraintList", domain |-> "", rows |-> <<>>]]

SetObjective(row) ==
    [op |-> "setattr",
     comp |-> [name |-> <<"objective">>, kind |-> "Objective", domain |-> "",
               rows |-> <<row>>]]

AddRow(name, row) == [op |-> "add", name |-> name, row |-> row]

SetTarget(row) == [op |-> "target", row |-> row]

RaiseIf(cond, name) == IF cond THEN <<[op |-> "raise", exc |-> name]>> ELSE <<>>

Row(kind, names, coef) == [kind |-> kind, vars |-> names, coef |-> coef]

HasComponent(comps, name) == \E n \in 1..Len(comps) : comps[n].name = name

\* A mutant of SetAttr: a component of that name is kept as it is.
SetAttr_keep(comps, comp) ==
    IF \E n \in 1..Len(comps) : comps[n].name = comp.name THEN comps
    ELSE Append(comps, comp)

\* setattr(model, name, component): a component of that name is replaced
SetAttr(comps, comp) ==
    Append(SelectSeq(comps, LAMBDA c : c.name # comp.name), comp)

\* getattr(model, name).add(row)
AddToList(comps, name, row) ==
    [n \in 1..Len(comps) |->
        IF comps[n].name = name
        THEN [comps[n] EXCEPT !.rows = Append(comps[n].rows, row)]
        ELSE comps[n]]

\* One statement on the components: the components after it and the
\* exception it raises, if any.
Statement(comps, o) ==
    CASE o.op = "setattr" -> [comps |-> SetAttr(comps, o.comp), exc |-> ""]
      [] o.op = "add" -> [comps |-> AddToList(comps, o.name, o.row), exc |-> ""]
      [] o.op = "target" ->
            \* the constraint is attached, then its rule reads
            \* getattr(model, f'SINK_{target.item.name}')
            IF HasComponent(comps, o.row.vars[1])
            THEN [comps |-> SetAttr(comps, [name |-> <<"target">>, kind |-> "Constraint",
                                            domain |-> "", rows |-> <<o.row>>]),
                  exc |-> ""]
            ELSE [comps |-> SetAttr(comps, [name |-> <<"target">>, kind |-> "Constraint",
                                            domain |-> "", rows |-> <<>>]),
                  exc |-> "AttributeError"]
      [] OTHER -> [comps |-> comps, exc |-> o.exc]

\* The statements run in order until one raises (the first half of them,
\* then the second half).
RECURSIVE Exec(_, _)
Exec(run, ops) ==
    IF run.exc # "" \/ ops = <<>> THEN run
    ELSE IF Len(ops) = 1 THEN Statement(run.comps, ops[1])
    ELSE LET half == Len(ops) \div 2
             first == Exec(run, SubSeq(ops, 1, half))
         IN Exec(first, SubSeq(ops, half + 1, Len(ops)))

\* GameTime.as_seconds: zero exactly when the duration is zero ticks
ZeroSeconds(duration) == duration.num = 0

\* solve, lines 21-61: the machine, its ports and its constraints
recipe_statements(machine, r) ==
    LET cons == machine \o <<"constraints">>
        rate == <<r.duration.num, r.duration.den>>
        inputs(j) ==
            <<SetVar(item_in_link(machine, r.inputs[j].item), "NonNegativeReals")>>
            \o RaiseIf(ZeroSeconds(r.duration), "ZeroDivisionError")
            \o <<AddRow(cons, Row("machine_in",
                                  <<machine, item_in_link(machine, r.inputs[j].item)>>,
                                  <<r.inputs[j].quantity>> \o rate))>>
        outputs(j) ==
            <<SetVar(item_out_link(machine, r.outputs[j].item), "NonNegativeReals")>>
            \o RaiseIf(ZeroSeconds(r.duration), "ZeroDivisionError")
            \o <<AddRow(cons, Row("machine_out",
                                  <<machine, item_out_link(machine, r.outputs[j].item)>>,
                                  <<r.outputs[j].quantity>> \o rate))>>
        pair(i, o) ==
            AddRow(cons, Row("in_out",
                             <<item_out_link(machine, r.outputs[o].item),
                               item_in_link(machine, r.inputs[i].item)>>,
                             <<r.outputs[o].quantity, r.inputs[i].quantity>> \o rate))
    IN <<SetVar(machine, "NonNegativeReals"), SetList(cons)>>
       \o Flatten([j \in 1..Len(r.inputs) |-> inputs(j)])
       \o Flatten([j \in 1..Len(r.outputs) |-> outputs(j)])
       \o Flatten([i \in 1..Len(r.inputs) |-> [o \in 1..Len(r.outputs) |-> pair(i, o)]])

\* item_in_links as the recipe loop leaves it
machine_in_links(recipes) ==
    DictAppendAll(<<>>,
        Flatten([m \in 1..Len(recipes) |->
            [j \in 1..Len(recipes[m].inputs) |->
                [key |-> recipes[m].inputs[j].item,
                 val |-> item_in_link(machine_name(m - 1), recipes[m].inputs[j].item)]]]))

\* item_out_links as the recipe loop leaves it
machine_out_links(recipes) ==
    DictAppendAll(<<>>,
        Flatten([m \in 1..Len(recipes) |->
            [j \in 1..Len(recipes[m].outputs) |->
                [key |-> recipes[m].outputs[j].item,
                 val |-> item_out_link(machine_name(m - 1), recipes[m].outputs[j].item)]]]))

\* machine_outputs
machine_outputs(recipes) ==
    UNION {{recipes[m].outputs[j].item : j \in 1..Len(recipes[m].outputs)} :
              m \in 1..Len(recipes)}

\* A mutant of source_items: the recipe outputs get a source as well.
source_items_and_outputs(recipes) ==
    DictKeys(machine_in_links(recipes) \o machine_out_links(recipes))

\* solve, lines 63-81: the items that get a source
source_items(recipes) == DictKeys(machine_in_links(recipes))

\* item_out_links after the source loop
item_out_links(recipes) ==
    LET src == source_items(recipes)
    IN DictAppendAll(machine_out_links(recipes),
           [n \in 1..Len(src) |-> [key |-> src[n], val |-> source_out_name(src[n])]])

\* A mutant of sink_items: only the recipe outputs get a sink.
sink_items_outputs_only(recipes) == DictKeys(machine_out_links(recipes))

\* solve, lines 83-101: the items that get a sink
sink_items(recipes) == DictKeys(item_out_links(recipes))

\* item_in_links after the sink loop
item_in_links(recipes) ==
    LET snk == sink_items(recipes)
    IN DictAppendAll(machine_in_links(recipes),
           [n \in 1..Len(snk) |-> [key |-> snk[n], val |-> sink_in_name(snk[n])]])

\* A mutant of output_input_pairs: the machine outputs are paired with the
\* inputs of every item.
output_input_pairs_any_item(in_links, out_links, item) ==
    LET ins == Flatten([n \in 1..Len(in_links) |-> in_links[n].val])
        outs == DictGet(out_links, item)
    IN Flatten([i \in 1..Len(ins) |->
           [o \in 1..Len(outs) |-> [out |-> outs[o], in |-> ins[i]]]])

\* [(o, i) for i in item_in_links[item] for o in item_out_links[item]]
output_input_pairs(in_links, out_links, item) ==
    LET ins == DictGet(in_links, item)
        outs == DictGet(out_links, item)
    IN Flatten([i \in 1..Len(ins) |->
           [o \in 1..Len(outs) |-> [out |-> outs[o], in |-> ins[i]]]])

\* solve, lines 103-112: every link, in the order it is made
links(recipes) ==
    LET ins == item_in_links(recipes)
        outs == item_out_links(recipes)
        items == DictKeys(outs)
    IN Flatten([n \in 1..Len(items) |-> output_input_pairs(ins, outs, items[n])])

\* incoming_link_map
incoming_link_map(ls) ==
    DictAppendAll(<<>>, [n \in 1..Len(ls) |->
        [key |-> ls[n].in, val |-> link_name(ls[n].out, ls[n].in)]])

\* A mutant of outgoing_link_map: the first link made is not recorded.
outgoing_link_map_skip(ls) ==
    DictAppendAll(<<>>, [n \in 1..(Len(ls) - 1) |->
        [key |-> ls[n + 1].out, val |-> link_name(ls[n + 1].out, ls[n + 1].in)]])

\* outgoing_link_map
outgoing_link_map(ls) ==
    DictAppendAll(<<>>, [n \in 1..Len(ls) |->
        [key |-> ls[n].out, val |-> link_name(ls[n].out, ls[n].in)]])

\* solve, lines 63-122
port_statements(recipes) ==
    LET src == source_items(recipes)
        snk == sink_items(recipes)
        ls == links(recipes)
        inc == incoming_link_map(ls)
        outg == outgoing_link_map(ls)
        source(item) ==
            <<SetVar(source_name(item), "Reals"),
              SetVar(source_out_name(item), "NonNegativeReals"),
              AddRow(<<"SOURCE", "CONSTRAINTS">>,
                     Row("sum_zero", <<source_name(item), source_out_name(item)>>, <<>>)),
              AddRow(<<"SOURCE", "CONSTRAINTS">>,
                     Row("le_zero", <<source_name(item)>>, <<>>))>>
        sink(item) ==
            <<SetVar(sink_name(item), "NonNegativeReals"),
              SetVar(sink_in_name(item), "NonNegativeReals"),
              AddRow(<<"SINK", "CONSTRAINTS">>,
                     Row("equal", <<sink_name(item), sink_in_name(item)>>, <<>>)),
              AddRow(<<"SINK", "CONSTRAINTS">>,
                     Row("ge_zero", <<sink_name(item)>>, <<>>))>>
    IN <<SetList(<<"SOURCE", "CONSTRAINTS">>)>>
       \o Flatten([n \in 1..Len(src) |-> source(src[n])])
       \o <<SetList(<<"SINK", "CONSTRAINTS">>)>>
       \o Flatten([n \in 1..Len(snk) |-> sink(snk[n])])
       \o [n \in 1..Len(ls) |-> SetVar(link_name(ls[n].out, ls[n].in), "NonNegativeReals")]
       \o <<SetList(<<"IN", "LINK", "EDGE", "CONSTRAINTS">>)>>
       \o [n \in 1..Len(inc) |->
              AddRow(<<"IN", "LINK", "EDGE", "CONSTRAINTS">>,
                     Row("equals_sum", <<inc[n].key>> \o inc[n].val, <<>>))]
       \o <<SetList(<<"OUT", "LINK", "EDGE", "CONSTRAINTS">>)>>
       \o [n \in 1..Len(outg) |->
              AddRow(<<"OUT", "LINK", "EDGE", "CONSTRAINTS">>,
                     Row("equals_sum", <<outg[n].key>> \o outg[n].val, <<>>))]

\* A mutant of taxed_items: every source is taxed.
taxed_items_every_source(recipes) == source_items(recipes)

\* solve, lines 127-137: the taxed items, in the order of item_source_map
taxed_items(recipes) ==
    LET outputs == machine_outputs(recipes)
    IN SelectSeq(source_items(recipes), LAMBDA item : item \in outputs)

\* solve, lines 124-148
closing_statements(recipes, target) ==
    LET taxed == taxed_items(recipes)
        src == source_items(recipes)
        tax(item) ==
            <<SetVar(source_tax_name(item), "NonNegativeReals"),
              AddRow(<<"SOURCE", "TAX", "CONSTRAINTS">>,
                     Row("tax", <<source_tax_name(item), source_name(item)>>,
                         <<0 - 50000>>))>>
    IN <<SetTarget(Row("ge", <<sink_name(target.item)>>, <<target.quantity_per_second>>)),
         SetList(<<"SOURCE", "TAX", "CONSTRAINTS">>)>>
       \o Flatten([n \in 1..Len(taxed) |-> tax(taxed[n])])
       \o <<SetObjective(Row("minimize",
                [m \in 1..Len(recipes) |-> machine_name(m - 1)]
                \o [n \in 1..Len(src) |-> source_name(src[n])]
                \o [n \in 1..Len(taxed) |-> source_tax_name(taxed[n])],
                [m \in 1..Len(recipes) |-> 1] \o [n \in 1..Len(src) |-> 0 - 1]
                \o [n \in 1..Len(taxed) |-> 1]))>>

\* solve: the model (its components) and the exception raised, if any
solve(recipes, target, given) ==
    Exec([comps |-> given, exc |-> ""],
         Flatten([m \in 1..Len(recipes) |-> recipe_statements(machine_name(m - 1), recipes[m])])
         \o port_statements(recipes)
         \o closing_statements(recipes, target))

-----------------------------------------------------------------------------
(* State machine of one run of the solver on a configuration.              *)

\* The stacks a recipe side may hold: distinct items, one of each
ItemStack(item) == [item |-> <<item>>, quantity |-> 1]

InputStacks ==
    {<<>>, <<ItemStack("a")>>, <<ItemStack("a"), ItemStack("b")>>}

OutputStacks ==
    {<<>>, <<ItemStack("b")>>, <<ItemStack("b"), ItemStack("c")>>}

TargetItems == {<<"a">>, <<"b">>, <<"c">>}

RecipeInputs ==
    {[inputs |-> I, outputs |-> O, duration |-> from_ticks(d)] :
        I \in InputStacks, O \in OutputStacks, d \in {0, 20}}

RecipeLists == UNION {[1..n -> RecipeInputs] : n \in 0..MaxRecipes}

Configs ==
    [recipes : RecipeLists,
     target : [item : TargetItems, quantity_per_second : {1}]]

\* solve(recipes, target) on the model of this process
Solve ==
    /\ pc = "config"
    /\ LET r == solve(config.recipes, config.target, model)
       IN /\ model' = r.comps
          /\ exc' = r.exc
          /\ pc' = IF r.exc = "" THEN "solved" ELSE "raised"
    /\ UNCHANGED <<volt, origin, req, recipe, raised, config, earlier, parsed, time, solution, calc, item_cache, graph>>

InitSolve ==
    /\ IdleVoltage /\ IdleRecipe
    /\ config \in Configs /\ pc = "config" /\ model = EmptyModel /\ exc = ""
    /\ earlier = NoEarlier /\ parsed = NotParsed /\ time = NoTime /\ solution = NoSolution /\ calc = NoCalc /\ item_cache = NoItems /\ graph = NoGraph

NextSolve == Solve

SpecSolve == InitSolve /\ [][NextSolve]_vars

-----------------------------------------------------------------------------
(* State machine of a process that invokes solve twice without passing a   *)
(* model: both invocations build on the default argument of solve, one     *)
(* ConcreteModel made when the function is defined.                        *)

\* recipes with as many inputs as outputs, of a duration that is not zero
ProcessRecipes ==
    {r \in RecipeInputs :
        r.inputs # <<>> /\ Len(r.inputs) = Len(r.outputs) /\ r.duration.num # 0}

ProcessConfigs ==
    [recipes : UNION {[1..n -> ProcessRecipes] : n \in 0..MaxRecipes},
     target : [item : {<<"b">>, <<"c">>}, quantity_per_second : {1}]]

\* a second solve(recipes, target) of the process, on the same default model
SolveAgain ==
    /\ pc \in {"solved", "raised"} /\ earlier = NoEarlier
    /\ \E next \in ProcessConfigs :
          LET r == solve(next.recipes, next.target, model)
          IN /\ earlier' = [config |-> config, model |-> model, exc |-> exc]
             /\ config' = next
             /\ model' = r.comps
             /\ exc' = r.exc
             /\ pc' = IF r.exc = "" THEN "solved" ELSE "raised"
    /\ UNCHANGED <<volt, origin, req, recipe, raised, parsed, time, solution, calc, item_cache, graph>>

InitProcess ==
    /\ IdleVoltage /\ IdleRecipe
    /\ config \in ProcessConfigs /\ pc = "config" /\ model = EmptyModel /\ exc = ""
    /\ earlier = NoEarlier /\ parsed = NotParsed /\ time = NoTime /\ solution = NoSolution /\ calc = NoCalc /\ item_cache = NoItems /\ graph = NoGraph

NextProcess == Solve \/ SolveAgain

SpecProcess == InitProcess /\ [][NextProcess]_vars

-----------------------------------------------------------------------------
(* grapher.py: the patterns of build_solution_graph.  The extractor sees   *)
(* the names of the variables as strings, here sequences of characters.    *)

Digits == {"0", "1", "2", "3", "4", "5", "6", "7", "8", "9"}

\* str(n) for n >= 0, as characters
RECURSIVE DecimalOf(_)
DecimalOf(n) ==
    IF n < 10 THEN <<ToString(n)>> ELSE Append(DecimalOf(n \div 10), ToString(n % 10))

\* the characters of one part of a name
Spell(part) ==
    CASE part = "SOURCE" -> <<"S", "O", "U", "R", "C", "E">>
      [] part = "SINK" -> <<"S", "I", "N", "K">>
      [] part = "OUT" -> <<"O", "U", "T">>
      [] part = "IN" -> <<"I", "N">>
      [] part = "TO" -> <<"T", "O">>
      [] part = "TAX" -> <<"T", "A", "X">>
      [] \E i \in 0..(MaxRecipes + 1) : part = "M" \o ToString(i) ->
            <<"M">> \o DecimalOf(CHOOSE i \in 0..(MaxRecipes + 1) : part = "M" \o ToString(i))
      [] OTHER -> <<part>>

\* '_'.join of the parts: v.name as the extractor reads it
RECURSIVE NameString(_)
NameString(name) ==
    IF Len(name) = 1 THEN Spell(name[1])
    ELSE Spell(name[1]) \o <<"_">> \o NameString(Tail(name))

\* the string has the word at position i
HasAt(str, i, word) ==
    i + Len(word) - 1 <= Len(str) /\ SubSeq(str, i, i + Len(word) - 1) = word

Contains(str, word) == \E i \in 1..Len(str) : HasAt(str, i, word)

From(str, i) == SubSeq(str, i, Len(str))

NoMatch == [match |-> FALSE, groups |-> <<>>]

Match(groups) == [match |-> TRUE, groups |-> groups]

\* (?:(?!word).)+$ : one character or more, none of them where the word starts
FreeOf(str, word) == Len(str) >= 1 /\ ~Contains(str, word)

\* the length of the prefix M\d+ of the string, 0 if it has none
MachineIdLen(str) ==
    IF Len(str) >= 2 /\ str[1] = "M" /\ str[2] \in Digits
    THEN CHOOSE k \in 2..Len(str) :
             /\ \A i \in 2..k : str[i] \in Digits
             /\ (k = Len(str) \/ str[k + 1] \notin Digits)
    ELSE 0

\* ^(M\d+)$
machine_pattern(str) ==
    IF MachineIdLen(str) = Len(str) /\ Len(str) > 0 THEN Match(<<str>>) ELSE NoMatch

\* ^(M\d+)_<port>_((?:(?!TO_).)+)$
machine_port_pattern(str, port) ==
    LET k == MachineIdLen(str)
        sep == <<"_">> \o port \o <<"_">>
    IN IF k > 0 /\ HasAt(str, k + 1, sep)
          /\ FreeOf(From(str, k + 1 + Len(sep)), <<"T", "O", "_">>)
       THEN Match(<<SubSeq(str, 1, k), From(str, k + 1 + Len(sep))>>)
       ELSE NoMatch

\* ^(M\d+)_IN_((?:(?!TO_).)+)$
machine_input_pattern(str) == machine_port_pattern(str, <<"I", "N">>)

\* ^(M\d+)_OUT_((?:(?!TO_).)+)$
machine_output_pattern(str) == machine_port_pattern(str, <<"O", "U", "T">>)

\* ^SINK_((?:(?!IN_).)+)$
sink_pattern(str) ==
    IF HasAt(str, 1, <<"S", "I", "N", "K", "_">>) /\ FreeOf(From(str, 6), <<"I", "N", "_">>)
    THEN Match(<<From(str, 6)>>)
    ELSE NoMatch

\* ^SINK_IN_.*$
sink_in_pattern(str) ==
    IF HasAt(str, 1, <<"S", "I", "N", "K", "_", "I", "N", "_">>) THEN Match(<<>>) ELSE NoMatch

\* ^SOURCE_(?:(?!OUT_))((?:(?!TO_).)+)$
source_pattern(str) ==
    IF /\ HasAt(str, 1, <<"S", "O", "U", "R", "C", "E", "_">>)
       /\ ~HasAt(str, 8, <<"O", "U", "T", "_">>)
       /\ FreeOf(From(str, 8), <<"T", "O", "_">>)
    THEN Match(<<From(str, 8)>>)
    ELSE NoMatch

\* ^SOURCE_OUT_(?:(?!TO_).)+$
source_out_pattern(str) ==
    IF /\ HasAt(str, 1, <<"S", "O", "U", "R", "C", "E", "_", "O", "U", "T", "_">>)
       /\ FreeOf(From(str, 12), <<"T", "O", "_">>)
    THEN Match(<<>>)
    ELSE NoMatch

\* ^(.*)_TO_(.*)$ : the first group is greedy, the split is at the last _TO_
link_pattern(str) ==
    IF Contains(str, <<"_", "T", "O", "_">>)
    THEN LET k == CHOOSE i \in 1..Len(str) :
                     /\ HasAt(str, i, <<"_", "T", "O", "_">>)
                     /\ \A j \in (i + 1)..Len(str) : ~HasAt(str, j, <<"_", "T", "O", "_">>)
         IN Match(<<SubSeq(str, 1, k - 1), From(str, k + 4)>>)
    ELSE NoMatch

\* str.replace(str, word, ''), the word not empty
RECURSIVE Remove(_, _)
Remove(str, word) ==
    IF str = <<>> THEN <<>>
    ELSE IF HasAt(str, 1, word) THEN Remove(From(str, Len(word) + 1), word)
    ELSE <<Head(str)>> \o Remove(Tail(str), word)

\* the names of model.component_objects(pyomo.Var), in declaration order
variables(comps) ==
    LET vs == SelectSeq(comps, LAMBDA c : c.kind = "Var")
    IN [n \in 1..Len(vs) |-> NameString(vs[n].name)]

\* build_solution_graph, lines 127-159 and the item names it reads off
\* lines 204, 216, 237, 249, 288
filter_variables(comps) ==
    LET names == variables(comps)
    IN [machines |-> SelectSeq(names, LAMBDA k : machine_pattern(k).match),
        sources |->
            LET ks == SelectSeq(names, LAMBDA k : source_pattern(k).match)
            IN [n \in 1..Len(ks) |->
                   [id |-> ks[n], item |-> source_pattern(ks[n]).groups[1]]],
        source_outs |->
            LET ks == SelectSeq(names, LAMBDA k : source_out_pattern(k).match)
            IN [n \in 1..Len(ks) |->
                   [id |-> ks[n],
                    item |-> Remove(ks[n], <<"S", "O", "U", "R", "C", "E", "_", "O", "U", "T", "_">>)]],
        sinks |->
            LET ks == SelectSeq(names, LAMBDA k : sink_pattern(k).match)
            IN [n \in 1..Len(ks) |-> [id |-> ks[n], item |-> sink_pattern(ks[n]).groups[1]]],
        sink_ins |->
            LET ks == SelectSeq(names, LAMBDA k : sink_in_pattern(k).match)
            IN [n \in 1..Len(ks) |->
                   [id |-> ks[n],
                    item |-> Remove(ks[n], <<"S", "I", "N", "K", "_", "I", "N", "_">>)]],
        links |->
            LET ks == SelectSeq(names, LAMBDA k : link_pattern(k).match)
            IN [n \in 1..Len(ks) |->
                   [id |-> ks[n], start |-> link_pattern(ks[n]).groups[1],
                    end |-> link_pattern(ks[n]).groups[2]]],
        machine_inputs |->
            LET ks == SelectSeq(names, LAMBDA k : machine_input_pattern(k).match)
            IN [n \in 1..Len(ks) |->
                   [id |-> ks[n], machine |-> machine_input_pattern(ks[n]).groups[1],
                    item |-> machine_input_pattern(ks[n]).groups[2]]],
        machine_outputs |->
            LET ks == SelectSeq(names, LAMBDA k : machine_output_pattern(k).match)
            IN [n \in 1..Len(ks) |->
                   [id |-> ks[n], machine |-> machine_output_pattern(ks[n]).groups[1],
                    item |-> machine_output_pattern(ks[n]).groups[2]]]]

\* build_solution_graph(model, ...) on the model solve returned
Extract ==
    /\ pc = "solved"
    /\ parsed' = filter_variables(model)
    /\ pc' = "extracted"
    /\ UNCHANGED <<volt, origin, req, recipe, raised, config, model, exc, earlier, time, solution, calc, item_cache, graph>>

NextExtract == Solve \/ Extract

SpecExtract == InitSolve /\ [][NextExtract]_vars

-----------------------------------------------------------------------------
(* solver.solve(model) on the two-recipe chain of main(): water to oxygen  *)
(* and hydrogen, sulfur and hydrogen to hydrogen sulfide.  A value of a    *)
(* variable is a whole number of 1 / Unit.                                 *)

Unit == 400

Stack(item, quantity) == [item |-> <<item>>, quantity |-> quantity]

recipe_hydrogen ==
    [inputs |-> <<Stack("water", 500)>>,
     outputs |-> <<Stack("oxygen", 500), Stack("hydrogen", 1000)>>,
     duration |-> from_ticks(1000)]

recipe_hydrogen_sulfude ==
    [inputs |-> <<Stack("sulfur", 1), Stack("hydrogen", 2000)>>,
     outputs |-> <<Stack("hydrogen_sulfide", 1000)>>,
     duration |-> from_ticks(60)]

\* the chain with a target of 50, 100, ... hydrogen sulfide per second
ChainConfigs ==
    {[recipes |-> <<recipe_hydrogen, recipe_hydrogen_sulfude>>,
      target |-> [item |-> <<"hydrogen_sulfide">>, quantity_per_second |-> 50 * k]] :
        k \in 1..MaxTargetSteps}

\* the two revisions of the class the durations may be objects of
Revisions == {"GameTime.py", "game_time.py"}

\* recipe.duration.as_seconds() in that revision
DurationSeconds(revision, duration) ==
    IF revision = "GameTime.py"
    THEN GameTime_as_seconds(GameTime_from_ticks(as_ticks(duration)))
    ELSE CHOOSE seconds \in as_seconds(duration) : TRUE

\* the row of a constraint holds for the values x
RowHolds(revision, row, x) ==
    LET v(n) == x[row.vars[n]]
    IN CASE row.kind \in {"machine_in", "machine_out"} ->
                \* machine == port / (quantity / seconds)
                LET seconds == DurationSeconds(revision, [num |-> row.coef[2], den |-> row.coef[3]])
                IN v(1) * row.coef[1] * seconds.den = v(2) * seconds.num
         [] row.kind = "in_out" ->
                \* out / (out_quantity / seconds) - in / (in_quantity / seconds) == 0
                v(1) * row.coef[2] = v(2) * row.coef[1]
         [] row.kind = "sum_zero" -> v(1) + v(2) = 0
         [] row.kind = "le_zero" -> v(1) <= 0
         [] row.kind = "equal" -> v(1) = v(2)
         [] row.kind = "ge_zero" -> v(1) >= 0
         [] row.kind = "equals_sum" ->
                LET RECURSIVE Sum(_)
                    Sum(n) == IF n > Len(row.vars) THEN 0 ELSE v(n) + Sum(n + 1)
                IN v(1) = Sum(2)
         [] row.kind = "tax" -> v(1) = v(2) * row.coef[1]
         [] row.kind = "ge" -> v(1) >= row.coef[1] * Unit

\* the values x are a point of the model: every variable has a value of its
\* domain and every constraint holds
Feasible(revision, comps, x) ==
    /\ DOMAIN x = {comps[n].name : n \in {k \in 1..Len(comps) : comps[k].kind = "Var"}}
    /\ \A n \in 1..Len(comps) :
           /\ (comps[n].kind = "Var" /\ comps[n].domain = "NonNegativeReals") =>
                  x[comps[n].name] >= 0
           /\ comps[n].kind \in {"ConstraintList", "Constraint"} =>
                  \A r \in 1..Len(comps[n].rows) : RowHolds(revision, comps[n].rows[r], x)

\* model.objective at the values x
ObjectiveValue(comps, x) ==
    LET row == comps[CHOOSE n \in 1..Len(comps) : comps[n].kind = "Objective"].rows[1]
        RECURSIVE Sum(_)
        Sum(n) == IF n > Len(row.vars) THEN 0 ELSE row.coef[n] * x[row.vars[n]] + Sum(n + 1)
    IN Sum(1)

\* The flows of the chain that make rate units of hydrogen sulfide a second,
\* with spare hydrogen made, hydrogen bought for the machine and for the
\* sink, and water and sulfur bought for the sink.
Plan(revision, rate, spare, bought, bought_spare, water_spare, sulfur_spare) ==
    LET hydrogen == recipe_hydrogen
        sulfide == recipe_hydrogen_sulfude
        s0 == DurationSeconds(revision, hydrogen.duration)
        s1 == DurationSeconds(revision, sulfide.duration)
        M0 == machine_name(0)
        M1 == machine_name(1)
        made == rate * Unit
        m1 == (made * s1.num) \div (1000 * s1.den)
        sulfur == (m1 * s1.den) \div s1.num
        needed == (m1 * 2000 * s1.den) \div s1.num
        from_m0 == needed - bought + spare
        m0 == (from_m0 * s0.num) \div (1000 * s0.den)
        water == (m0 * 500 * s0.den) \div s0.num
        In(m, item) == item_in_link(m, <<item>>)
        Out(m, item) == item_out_link(m, <<item>>)
        pairs ==
            <<<<M0, m0>>, <<In(M0, "water"), water>>, <<Out(M0, "oxygen"), water>>,
              <<Out(M0, "hydrogen"), from_m0>>,
              <<M1, m1>>, <<In(M1, "sulfur"), sulfur>>, <<In(M1, "hydrogen"), needed>>,
              <<Out(M1, "hydrogen_sulfide"), made>>,
              <<source_name(<<"water">>), 0 - (water + water_spare)>>,
              <<source_out_name(<<"water">>), water + water_spare>>,
              <<source_name(<<"sulfur">>), 0 - (sulfur + sulfur_spare)>>,
              <<source_out_name(<<"sulfur">>), sulfur + sulfur_spare>>,
              <<source_name(<<"hydrogen">>), 0 - (bought + bought_spare)>>,
              <<source_out_name(<<"hydrogen">>), bought + bought_spare>>,
              <<source_tax_name(<<"hydrogen">>), 50000 * (bought + bought_spare)>>,
              <<sink_name(<<"water">>), water_spare>>,
              <<sink_in_name(<<"water">>), water_spare>>,
              <<sink_name(<<"sulfur">>), sulfur_spare>>,
              <<sink_in_name(<<"sulfur">>), sulfur_spare>>,
              <<sink_name(<<"hydrogen">>), spare + bought_spare>>,
              <<sink_in_name(<<"hydrogen">>), spare + bought_spare>>,
              <<sink_name(<<"oxygen">>), water>>,
              <<sink_in_name(<<"oxygen">>), water>>,
              <<sink_name(<<"hydrogen_sulfide">>), made>>,
              <<sink_in_name(<<"hydrogen_sulfide">>), made>>,
              <<link_name(source_out_name(<<"water">>), In(M0, "water")), water>>,
              <<link_name(source_out_name(<<"water">>), sink_in_name(<<"water">>)), water_spare>>,
              <<link_name(source_out_name(<<"sulfur">>), In(M1, "sulfur")), sulfur>>,
              <<link_name(source_out_name(<<"sulfur">>), sink_in_name(<<"sulfur">>)),
                sulfur_spare>>,
              <<link_name(Out(M0, "oxygen"), sink_in_name(<<"oxygen">>)), water>>,
              <<link_name(Out(M0, "hydrogen"), In(M1, "hydrogen")), needed - bought>>,
              <<link_name(Out(M0, "hydrogen"), sink_in_name(<<"hydrogen">>)), spare>>,
              <<link_name(source_out_name(<<"hydrogen">>), In(M1, "hydrogen")), bought>>,
              <<link_name(source_out_name(<<"hydrogen">>), sink_in_name(<<"hydrogen">>)),
                bought_spare>>,
              <<link_name(Out(M1, "hydrogen_sulfide"), sink_in_name(<<"hydrogen_sulfide">>)),
                made>>>>
    IN [name \in {pairs[n][1] : n \in 1..Len(pairs)} |->
           pairs[CHOOSE n \in 1..Len(pairs) : pairs[n][1] = name][2]]

\* The points the search visits: the target rate and one step of 50 either
\* side, each flow that a cheaper point could lack or have either absent or
\* one unit.
Plans(revision, target) ==
    {Plan(revision, rate, spare, bought, bought_spare, water_spare, sulfur_spare) :
        rate \in {target.quantity_per_second - 50, target.quantity_per_second,
                  target.quantity_per_second + 50},
        spare \in {0, Unit}, bought \in {0, Unit}, bought_spare \in {0, Unit},
        water_spare \in {0, Unit}, sulfur_spare \in {0, Unit}}

\* solver.solve(model): the feasible points of least objective
Optima(revision, comps, target) ==
    LET feasible == {x \in Plans(revision, target) : Feasible(revision, comps, x)}
    IN {x \in feasible : \A y \in feasible : ObjectiveValue(comps, x) <= ObjectiveValue(comps, y)}

\* result = solver.solve(model), the durations objects of either revision
Optimise ==
    /\ pc = "solved" /\ solution = NoSolution
    /\ \E revision \in Revisions :
           \E x \in Optima(revision, model, config.target) :
               solution' = [seconds |-> revision, values |-> x]
    /\ pc' = "optimal"
    /\ UNCHANGED <<volt, origin, req, recipe, raised, config, model, exc, earlier, parsed, time, calc, item_cache, graph>>

InitChain ==
    /\ IdleVoltage /\ IdleRecipe
    /\ config \in ChainConfigs /\ pc = "config" /\ model = EmptyModel /\ exc = ""
    /\ earlier = NoEarlier /\ parsed = NotParsed /\ time = NoTime /\ solution = NoSolution /\ calc = NoCalc /\ item_cache = NoItems /\ graph = NoGraph

NextChain == Solve \/ Optimise

SpecChain == InitChain /\ [][NextChain]_vars

-----------------------------------------------------------------------------
(* Items: make_item of gamelogic/Items.py and models.py, a function under  *)
(* functools.cache, and ItemName of main.py.  A name is its characters; an *)
(* Item object is [id, name], id telling one instance from another.        *)

\* the names handed to the factories: letters and spaces
ItemNames == UNION {[1..n -> {"a", "b", " "}] : n \in 1..MaxNameLen}

\* make_item(name): the cached Item of that name, or a new Item(name) that
\* is put in the cache
make_item(cache, name) ==
    IF DictHas(cache, name)
    THEN [item |-> cache[CHOOSE n \in 1..Len(cache) : cache[n].key = name].val,
          cache |-> cache]
    ELSE [item |-> [id |-> Len(cache) + 1, name |-> name],
          cache |-> Append(cache, [key |-> name, val |-> [id |-> Len(cache) + 1, name |-> name]])]

\* ItemName(value): value.replace(" ", "_")
ItemName(value) == [n \in 1..Len(value) |-> IF value[n] = " " THEN "_" ELSE value[n]]

\* f'{machine_name}_IN_{itemstack.item.name}' as characters
item_in_link_string(machine, name) == NameString(machine \o <<"IN">>) \o <<"_">> \o name

\* make_item(name), through make_itemstack or make_target
MakeItem(name) ==
    /\ Len(item_cache.calls) < MaxCalls
    /\ LET r == make_item(item_cache.cache, name)
       IN item_cache' = [cache |-> r.cache,
                    calls |-> Append(item_cache.calls,
                                     [factory |-> "make_item", arg |-> name, item |-> r.item])]
    /\ UNCHANGED <<volt, origin, req, recipe, raised, pc, config, model, exc, earlier, parsed, time, solution, calc, graph>>

\* ItemName(value) of main.py: a new string at every call
MakeItemName(value) ==
    /\ Len(item_cache.calls) < MaxCalls
    /\ item_cache' = [item_cache EXCEPT !.calls =
                    Append(item_cache.calls,
                           [factory |-> "ItemName", arg |-> value,
                            item |-> [id |-> 0, name |-> ItemName(value)]])]
    /\ UNCHANGED <<volt, origin, req, recipe, raised, pc, config, model, exc, earlier, parsed, time, solution, calc, graph>>

InitItems == IdleVoltage /\ IdleRecipe /\ IdleSolver

NextItems ==
    \/ \E name \in ItemNames : MakeItem(name)
    \/ \E value \in ItemNames : MakeItemName(value)

SpecItems == InitItems /\ [][NextItems]_vars

-----------------------------------------------------------------------------
(* grapher.py: build_solution_graph on the values of a solved model.  The  *)
(* values are whole numbers of a unit that the constraints do not depend   *)
(* on when the target rate is zero; under SpecGraph the unit is 1e-12.     *)

\* the denominator of rel_tol = 1e-09, the default of math.isclose
REL_TOL_DEN == 1000000000

Abs(n) == IF n < 0 THEN 0 - n ELSE n

\* math.isclose(a, b): abs(a - b) <= max(rel_tol * max(abs(a), abs(b)), 0.0)
isclose(a, b) == Abs(a - b) <= Max(Abs(a), Abs(b)) \div REL_TOL_DEN

\* variables[k]: the value of the variable whose name is the string k
Value(k) ==
    solution.values[CHOOSE name \in DOMAIN solution.values : NameString(name) = k]

\* link_name_to_node_map[key] = node
MapSet(map, key, node) ==
    IF DictHas(map, key)
    THEN [n \in 1..Len(map) |-> IF map[n].key = key THEN [key |-> key, val |-> node] ELSE map[n]]
    ELSE Append(map, [key |-> key, val |-> node])

\* link_name_to_node_map[key], the key present
MapGet(map, key) == map[CHOOSE n \in 1..Len(map) : map[n].key = key].val

\* graph.nodes.append(node) after link_name_to_node_map[node.id] = node
AddNode(g, node) ==
    [g EXCEPT !.nodes = Append(g.nodes, node), !.map = MapSet(g.map, node.id, node)]

\* A mutant of AddEdge: the edge is appended without looking its ends up.
AddEdge_unchecked(g, start, end, edge) ==
    [g EXCEPT !.edges = Append(g.edges,
        [start |-> IF DictHas(g.map, start) THEN MapGet(g.map, start) ELSE [kind |-> "", id |-> start],
         end |-> IF DictHas(g.map, end) THEN MapGet(g.map, end) ELSE [kind |-> "", id |-> end]]
        @@ edge)]

\* graph.edges.append(Edge(start = link_name_to_node_map[start],
\* end = link_name_to_node_map[end], ...)): a KeyError when a name is absent
AddEdge(g, start, end, edge) ==
    IF ~DictHas(g.map, start) \/ ~DictHas(g.map, end) THEN [g EXCEPT !.exc = "KeyError"]
    ELSE [g EXCEPT !.edges = Append(g.edges,
             [start |-> MapGet(g.map, start), end |-> MapGet(g.map, end)] @@ edge)]

\* lines 199-210, one source
source_step(g, e, quantity) ==
    IF isclose(quantity, 0) THEN g
    ELSE AddNode(g, [kind |-> "SourceNode", id |-> e.id, item |-> e.item,
                     quantity |-> quantity])

\* lines 213-230, one source OUT
source_out_step(g, e, quantity) ==
    IF isclose(quantity, 0) THEN g
    ELSE LET source == Remove(e.id, <<"_", "O", "U", "T">>)
         IN AddEdge(AddNode(g, [kind |-> "ItemNode", id |-> e.id, item |-> e.item,
                                quantity |-> quantity]),
                    source, e.id,
                    [kind |-> "ItemDirectedEdge", item |-> e.item, quantity |-> quantity])

\* lines 233-243, one sink
sink_step(g, e, quantity) ==
    IF isclose(quantity, 0) THEN g
    ELSE AddNode(g, [kind |-> "SinkNode", id |-> e.id, item |-> e.item,
                     quantity |-> quantity])

\* lines 246-263, one sink IN
sink_in_step(g, e, quantity) ==
    IF isclose(quantity, 0) THEN g
    ELSE LET sink == Remove(e.id, <<"_", "I", "N">>)
         IN AddEdge(AddNode(g, [kind |-> "ItemNode", id |-> e.id, item |-> e.item,
                                quantity |-> quantity]),
                    e.id, sink,
                    [kind |-> "ItemDirectedEdge", item |-> e.item, quantity |-> quantity])

\* machine_id_to_recipe_map of solve, lines 15 and 25: the machines M0, M1, ...
machine_id_to_recipe_map(recipes) ==
    [m \in 1..Len(recipes) |-> [key |-> NameString(machine_name(m - 1)), val |-> recipes[m]]]

\* lines 266-281, one machine
machine_step(g, machine, quantity) ==
    LET recipes == machine_id_to_recipe_map(config.recipes)
        machine_id == machine_pattern(machine).groups[1]
    IN IF ~DictHas(recipes, machine_id) THEN [g EXCEPT !.exc = "KeyError"]
       ELSE AddNode(g, [kind |-> "MachineNode", id |-> machine, quantity |-> quantity,
                        recipe |-> MapGet(recipes, machine_id)])

\* lines 284-300, one machine input
machine_input_step(g, e, quantity) ==
    IF isclose(quantity, 0) THEN g
    ELSE AddEdge(AddNode(g, [kind |-> "MachineInputNode", id |-> e.id,
                             machine_id |-> e.machine, item |-> e.item,
                             quantity |-> quantity]),
                 e.id, e.machine,
                 [kind |-> "MachineInputDirectedEdge", machine_id |-> e.machine])

\* lines 303-319, one machine output
machine_output_step(g, e, quantity) ==
    IF isclose(quantity, 0) THEN g
    ELSE AddEdge(AddNode(g, [kind |-> "MachineOutputNode", id |-> e.id,
                             machine_id |-> e.machine, item |-> e.item,
                             quantity |-> quantity]),
                 e.machine, e.id,
                 [kind |-> "MachineOutputDirectedEdge", machine_id |-> e.machine])

\* lines 322-349, one link
link_step(g, link, value) ==
    IF isclose(value, 0) THEN g
    ELSE IF ~DictHas(g.map, link.start) \/ ~DictHas(g.map, link.end)
    THEN [g EXCEPT !.exc = "KeyError"]
    ELSE LET end == MapGet(g.map, link.end)
         IN IF end.kind = "MachineNode" THEN [g EXCEPT !.exc = "ValueError"]
            ELSE IF end.kind = "MachineOutputNode" THEN g
            ELSE AddEdge(g, link.start, link.end,
                         [kind |-> "ItemDirectedEdge", item |-> end.item, quantity |-> value])

\* one pass of a loop of the builder
Step(loop, g, e) ==
    CASE loop = "sources" -> source_step(g, e, Value(e.id))
      [] loop = "source_outs" -> source_out_step(g, e, Value(e.id))
      [] loop = "sinks" -> sink_step(g, e, Value(e.id))
      [] loop = "sink_ins" -> sink_in_step(g, e, Value(e.id))
      [] loop = "machines" -> machine_step(g, e, Value(e))
      [] loop = "machine_inputs" -> machine_input_step(g, e, Value(e.id))
      [] loop = "machine_outputs" -> machine_output_step(g, e, Value(e.id))
      [] loop = "links" -> link_step(g, e, Value(e.id))

\* a loop of the builder over its entries, left at the first exception
RECURSIVE Loop(_, _, _)
Loop(loop, g, entries) ==
    IF g.exc # "" \/ entries = <<>> THEN g
    ELSE Loop(loop, Step(loop, g, Head(entries)), Tail(entries))

\* the loops in the order of the function, and where each one leads
Loops ==
    <<"sources", "source_outs", "sinks", "sink_ins", "machines", "machine_inputs",
      "machine_outputs", "links", "built">>

After(loop) == Loops[(CHOOSE n \in 1..Len(Loops) : Loops[n] = loop) + 1]

\* the flows a link may carry, in units of 1e-12
FlowValues == {0, 1, 2000}

\* the link variables that solve makes for the recipes
LinkNames(recipes) ==
    LET ls == links(recipes)
    IN {link_name(ls[n].out, ls[n].in) : n \in 1..Len(ls)}

\* How the value of a variable follows from the flows of the links: a link
\* is its flow, a port the sum of its links, a source the negative of its
\* junction, a sink its junction, a machine its port over the rate, a tax
\* 50000 times the amount bought.
Derivation(comps, free) ==
    LET names == {comps[n].name : n \in {k \in 1..Len(comps) : comps[k].kind = "Var"}}
        rows == UNION {{comps[n].rows[r] : r \in 1..Len(comps[n].rows)} :
                          n \in {k \in 1..Len(comps) : comps[k].kind = "ConstraintList"}}
        Heads(kinds, name) == {row \in rows : row.kind \in kinds /\ row.vars[1] = name}
        Rule(kinds, name) == [by |-> (CHOOSE row \in Heads(kinds, name) : TRUE).kind,
                              row |-> CHOOSE row \in Heads(kinds, name) : TRUE]
    IN [name \in names |->
           IF name \in free THEN [by |-> "flow"]
           ELSE IF Heads({"equals_sum"}, name) # {} THEN Rule({"equals_sum"}, name)
           ELSE IF Heads({"sum_zero"}, name) # {} THEN Rule({"sum_zero"}, name)
           ELSE IF Heads({"equal"}, name) # {} THEN Rule({"equal"}, name)
           ELSE IF Heads({"machine_in", "machine_out"}, name) # {}
           THEN Rule({"machine_in", "machine_out"}, name)
           ELSE IF Heads({"tax"}, name) # {} THEN Rule({"tax"}, name)
           ELSE [by |-> "zero"]]

\* the values of all variables that the flows of the links determine
Derive(revision, rule, flow) ==
    LET RECURSIVE Sum(_, _)
        Sum(vs, n) == IF n > Len(vs) THEN 0
                      ELSE (IF vs[n] \in DOMAIN flow THEN flow[vs[n]] ELSE 0) + Sum(vs, n + 1)
        port(name) ==
            IF rule[name].by = "flow" THEN flow[name]
            ELSE IF rule[name].by = "equals_sum" THEN Sum(rule[name].row.vars, 2)
            ELSE 0
        end(name) ==
            LET row == rule[name].row
            IN CASE rule[name].by \in {"flow", "equals_sum"} -> port(name)
                 [] rule[name].by = "sum_zero" -> 0 - port(row.vars[2])
                 [] rule[name].by = "equal" -> port(row.vars[2])
                 [] rule[name].by \in {"machine_in", "machine_out"} ->
                        LET seconds == DurationSeconds(revision,
                                           [num |-> row.coef[2], den |-> row.coef[3]])
                        IN (port(row.vars[2]) * seconds.num) \div (row.coef[1] * seconds.den)
                 [] OTHER -> 0
    IN [name \in DOMAIN rule |->
           IF rule[name].by = "tax" THEN end(rule[name].row.vars[2]) * rule[name].row.coef[1]
           ELSE end(name)]

\* the points of the model among those the flows of the links determine
Points(revision, comps, recipes) ==
    LET free == LinkNames(recipes)
        rule == Derivation(comps, free)
    IN {x \in {Derive(revision, rule, flow) : flow \in [free -> FlowValues]} :
           Feasible(revision, comps, x)}

\* one of an item made of one of another in a second
GraphRecipe(input, output) ==
    [inputs |-> <<[item |-> input, quantity |-> 1]>>,
     outputs |-> <<[item |-> output, quantity |-> 1]>>,
     duration |-> from_ticks(TICKS_PER_SECOND)]

\* recipes of items with plain names, and of items whose names hold a word
\* of the variable names: OUT_b, TO_b, IN_b
GraphRecipes ==
    {GraphRecipe(<<"a">>, <<"b">>), GraphRecipe(<<"b">>, <<"c">>),
     GraphRecipe(<<"OUT", "b">>, <<"b">>), GraphRecipe(<<"TO", "b">>, <<"b">>),
     GraphRecipe(<<"a">>, <<"IN", "b">>)}

\* a recipe or a pair of recipes, the target an output of the first at a
\* rate of zero
GraphConfigs ==
    {[recipes |-> rs, target |-> [item |-> rs[1].outputs[1].item, quantity_per_second |-> 0]] :
        rs \in {<<r>> : r \in GraphRecipes} \cup (GraphRecipes \X GraphRecipes)}

\* solver.solve(model) leaves a point of the model in the variables
Assign ==
    /\ pc = "solved" /\ solution = NoSolution
    /\ \E revision \in Revisions :
           \E x \in Points(revision, model, config.recipes) :
               solution' = [seconds |-> revision, values |-> x]
    /\ pc' = "assigned"
    /\ UNCHANGED <<volt, origin, req, recipe, raised, config, model, exc, earlier, parsed, time, calc, item_cache, graph>>

\* build_solution_graph, lines 122-159: the variables filed by pattern
FilterVariables ==
    /\ pc = "assigned"
    /\ parsed' = filter_variables(model)
    /\ graph' = NoGraph
    /\ pc' = Loops[1]
    /\ UNCHANGED <<volt, origin, req, recipe, raised, config, model, exc, earlier, time, solution, calc, item_cache>>

\* a loop of build_solution_graph, run to its end or to its exception
RunLoop(loop, entries) ==
    /\ pc = loop
    /\ LET g == Loop(loop, graph, entries)
       IN /\ graph' = g
          /\ pc' = IF g.exc = "" THEN After(loop) ELSE "failed"
    /\ UNCHANGED <<volt, origin, req, recipe, raised, config, model, exc, earlier, parsed, time, solution, calc, item_cache>>

MakeSourceNodes == RunLoop("sources", parsed.sources)

MakeSourceOutNodes == RunLoop("source_outs", parsed.source_outs)

MakeSinkNodes == RunLoop("sinks", parsed.sinks)

MakeSinkInNodes == RunLoop("sink_ins", parsed.sink_ins)

MakeMachineNodes == RunLoop("machines", parsed.machines)

MakeMachineInNodes == RunLoop("machine_inputs", parsed.machine_inputs)

MakeMachineOutNodes == RunLoop("machine_outputs", parsed.machine_outputs)

MakeEdges == RunLoop("links", parsed.links)

InitGraph ==
    /\ IdleVoltage /\ IdleRecipe
    /\ config \in GraphConfigs /\ pc = "config" /\ model = EmptyModel /\ exc = ""
    /\ earlier = NoEarlier /\ parsed = NotParsed /\ time = NoTime /\ solution = NoSolution /\ calc = NoCalc /\ item_cache = NoItems /\ graph = NoGraph

NextGraph ==
    \/ Solve
    \/ Assign
    \/ FilterVariables
    \/ MakeSourceNodes
    \/ MakeSourceOutNodes
    \/ MakeSinkNodes
    \/ MakeSinkInNodes
    \/ MakeMachineNodes
    \/ MakeMachineInNodes
    \/ MakeMachineOutNodes
    \/ MakeEdges

SpecGraph == InitGraph /\ [][NextGraph]_vars

-----------------------------------------------------------------------------
(* Recipe construction: claims C1 .. C4, under SpecRecipe.                 *)

\* The constructor has run on the request.
Acted == ~NotConstructed

\* T_r, the tier of the base voltage the constructor is handed
RecipeTier == tier(Voltage(req.eut))

NewTicks == as_ticks(recipe[1].duration)

NewEut == recipe[1].eu_per_gametick

\* C1: for a recipe whose base tier is strictly below the machine tier, with
\* D the difference of the ranks, the standard policy yields
\* max(1, ceil(orig_ticks / 2^D)) ticks, the perfect policy
\* max(1, ceil(orig_ticks / 4^D)) ticks, and both yield v_base * 4^D; 200 ticks
\* at eut 8 in an EV machine give 25 ticks / 512 and 4 ticks / 512.
C1_OverclockScaling ==
    (Acted /\ req.policy \in {"standard", "perfect"} /\ RecipeTier < req.machine_tier) =>
        LET D == req.machine_tier - RecipeTier
            speed == IF req.policy = "standard" THEN 2 ELSE 4
        IN /\ recipe # <<>>
           /\ NewTicks = Max(1, CeilDiv(req.ticks, speed ^ D))
           /\ NewEut = req.eut * (4 ^ D)
           /\ (req.ticks = 200 /\ req.eut = 8 /\ req.machine_tier = 4) =>
                  /\ NewTicks = (IF req.policy = "standard" THEN 25 ELSE 4)
                  /\ NewEut = 512

C1_Witness ==
    /\ req = [policy |-> "perfect", machine_tier |-> 4, ticks |-> 200, eut |-> 8]
    /\ recipe # <<>> /\ NewTicks = 4 /\ NewEut = 512

C2_MismatchRefused ==
    /\ req.machine_tier = LV /\ req.eut = 512
    /\ raised = "ValueError" /\ recipe = <<>>

\* C3: every successfully constructed recipe, under every policy, has a
\* normalized eu_per_gametick of at most the canonical maximum voltage of the
\* machine tier and a normalized duration of at least 1 tick.
C3_Stated ==
    recipe # <<>> => (NewEut <= from_tier(req.machine_tier) /\ NewTicks >= 1)

\* The centrifuge at MV given eut 100: 0 parallels, eu_per_gametick 360 > 128.
C3_Failing ==
    /\ req = [policy |-> "centrifuge", machine_tier |-> 2, ticks |-> 200, eut |-> 100]
    /\ recipe # <<>> /\ recipe[1].parallels = 0 /\ NewEut = 360 /\ NewTicks = 28

\* C3 fails only where the centrifuge computes fewer than one parallel or the
\* duration handed in is zero ticks.
C3_ElseHolds ==
    (recipe # <<>> /\ recipe[1].parallels >= 1 /\ req.ticks >= 1) =>
        (NewEut <= from_tier(req.machine_tier) /\ NewTicks >= 1)

\* C4: after normalization every successfully constructed recipe satisfies
\* Voltage(eu_per_gametick).tier <= machine_tier.
C4_Stated == recipe # <<>> => tier(Voltage(NewEut)) <= req.machine_tier

\* The centrifuge at MV given eut 36: 0 parallels, eu_per_gametick 128, tier HV.
C4_Failing ==
    /\ req = [policy |-> "centrifuge", machine_tier |-> 2, ticks |-> 200, eut |-> 36]
    /\ recipe # <<>> /\ recipe[1].parallels = 0 /\ NewEut = 128
    /\ tier(Voltage(NewEut)) = 3

\* C4 fails only where the centrifuge computes fewer than one parallel.
C4_ElseHolds ==
    (recipe # <<>> /\ recipe[1].parallels >= 1) =>
        tier(Voltage(NewEut)) <= req.machine_tier

-----------------------------------------------------------------------------
(* Voltage and its tier: claims C5 .. C8, under SpecVoltage.               *)

\* V_max(T) as the specification has it: 8 * 4^(T-1), and V_max(0) = 0
VmaxStated(T) == IF T = 0 THEN 0 ELSE 8 * (4 ^ (T - 1))

\* V_max(T) = 32 * 4^(T-1) written as a power of two, and V_max(0) = 0
Vmax32(T) == IF T = 0 THEN 0 ELSE 2 ^ (2 * T + 3)

C6_Stated == origin.op = "from_tier" => tier(volt) = origin.arg

\* from_tier(LV) is 32, whose tier is MV.
C6_Failing == origin = [op |-> "from_tier", arg |-> LV] /\ volt = 32 /\ tier(volt) = 2

\* The least tier of LV..UXV whose canonical voltage is at least v; MAX if none.
RECURSIVE LeastTierHolding(_, _)
LeastTierHolding(v, T) ==
    IF T = MAX THEN MAX
    ELSE IF v <= Vmax32(T) THEN T
    ELSE LeastTierHolding(v, T + 1)

\* C7: Voltage(v).tier is the smallest tier T with v <= from_tier(T).voltage:
\* 32 -> LV, 33 -> MV, 128 -> MV, 129 -> HV, 512 -> HV, and 0 -> LV.
C7_Stated ==
    /\ tier(volt) = LeastTierHolding(volt, LV)
    /\ volt \in {0, 32} => tier(volt) = LV
    /\ volt \in {33, 128} => tier(volt) = 2
    /\ volt \in {129, 512} => tier(volt) = 3

\* Voltage(32).tier is MV, Voltage(128).tier is HV.
C7_Failing == origin.op = "init" /\ volt = 128 /\ tier(volt) = 3

-----------------------------------------------------------------------------
(* Solver: claims C9, C10, read off the model a run of solve leaves.       *)

Solved == pc = "solved"

VarNames == {model[n].name : n \in {k \in 1..Len(model) : model[k].kind = "Var"}}

\* the rows of the constraint list of that name
RowsOf(name) ==
    IF HasComponent(model, name)
    THEN model[CHOOSE n \in 1..Len(model) : model[n].name = name].rows
    ELSE <<>>

\* A link is named <producer>_TO_<consumer>.
IsLinkName(name) == \E k \in 1..Len(name) : name[k] = "TO"

ProducerOf(name) == SubSeq(name, 1, (CHOOSE k \in 1..Len(name) : name[k] = "TO") - 1)

ConsumerOf(name) ==
    SubSeq(name, (CHOOSE k \in 1..Len(name) : name[k] = "TO") + 1, Len(name))

\* <machine>_OUT_<item> and SOURCE_OUT_<item>
IsProducerPort(name) == ~IsLinkName(name) /\ Len(name) >= 3 /\ name[2] = "OUT"

\* <machine>_IN_<item> and SINK_IN_<item>
IsConsumerPort(name) == ~IsLinkName(name) /\ Len(name) >= 3 /\ name[2] = "IN"

PortItem(name) == SubSeq(name, 3, Len(name))

ProducerPorts == {v \in VarNames : IsProducerPort(v)}

ConsumerPorts == {v \in VarNames : IsConsumerPort(v)}

LinkVars == {v \in VarNames : IsLinkName(v)}

\* the rows of a constraint list that equate the port to a sum
SumRows(list, port) ==
    {n \in 1..Len(RowsOf(list)) :
        RowsOf(list)[n].kind = "equals_sum" /\ RowsOf(list)[n].vars[1] = port}

\* the row equates the port to the sum of exactly the links of the set
SumsExactly(row, linkset) ==
    /\ Len(row.vars) = 1 + Cardinality(linkset)
    /\ {row.vars[k] : k \in 2..Len(row.vars)} = linkset

\* C9: after a solve on a fresh model, every producer port and every
\* consumer port has one constraint, and it equates the port to the sum of
\* the links attached to it.
C9_PortSums ==
    Solved =>
        /\ \A p \in ProducerPorts :
              /\ Cardinality(SumRows(<<"OUT", "LINK", "EDGE", "CONSTRAINTS">>, p)) = 1
              /\ \A n \in SumRows(<<"OUT", "LINK", "EDGE", "CONSTRAINTS">>, p) :
                    SumsExactly(RowsOf(<<"OUT", "LINK", "EDGE", "CONSTRAINTS">>)[n],
                                {l \in LinkVars : ProducerOf(l) = p})
        /\ \A c \in ConsumerPorts :
              /\ Cardinality(SumRows(<<"IN", "LINK", "EDGE", "CONSTRAINTS">>, c)) = 1
              /\ \A n \in SumRows(<<"IN", "LINK", "EDGE", "CONSTRAINTS">>, c) :
                    SumsExactly(RowsOf(<<"IN", "LINK", "EDGE", "CONSTRAINTS">>)[n],
                                {l \in LinkVars : ConsumerOf(l) = c})

\* C9 witness: a solved model in which a machine's producer port feeds two
\* consumers and a machine's consumer port is fed by two producers.
C9_Witness ==
    /\ Solved
    /\ \E p \in ProducerPorts :
          p[1] # "SOURCE" /\ Cardinality({l \in LinkVars : ProducerOf(l) = p}) >= 2
    /\ \E c \in ConsumerPorts :
          c[1] # "SINK" /\ Cardinality({l \in LinkVars : ConsumerOf(l) = c}) >= 2

\* the variables of the model that carry the name of the link from p to c
LinksBetween(p, c) ==
    {n \in 1..Len(model) : model[n].kind = "Var" /\ model[n].name = p \o <<"TO">> \o c}

\* C10: after a solve on a fresh model, there is exactly one link variable
\* for every producer port and consumer port of the same item, none for
\* ports of different items, and every link joins two ports of the model.
C10_Links ==
    Solved =>
        /\ \A p \in ProducerPorts : \A c \in ConsumerPorts :
              Cardinality(LinksBetween(p, c)) = IF PortItem(p) = PortItem(c) THEN 1 ELSE 0
        /\ \A l \in LinkVars :
              ProducerOf(l) \in ProducerPorts /\ ConsumerOf(l) \in ConsumerPorts

\* C10 witness: a solved model with two machine producers and two machine
\* consumers of one item, and ports of a second item as well.
C10_Witness ==
    /\ Solved
    /\ \E p1, p2 \in ProducerPorts : \E c1, c2 \in ConsumerPorts :
          /\ p1 # p2 /\ c1 # c2
          /\ {p1[1], p2[1]} \cap {"SOURCE"} = {} /\ {c1[1], c2[1]} \cap {"SINK"} = {}
          /\ PortItem(p1) = PortItem(p2) /\ PortItem(c1) = PortItem(c2)
          /\ PortItem(p1) = PortItem(c1)
          /\ \E q \in ProducerPorts : PortItem(q) # PortItem(p1)

-----------------------------------------------------------------------------
(* Solver: claims C11 .. C14, under SpecSolve.                             *)

\* the items of the configuration that are an input of some recipe
ConfigInputs ==
    UNION {{config.recipes[m].inputs[j].item : j \in 1..Len(config.recipes[m].inputs)} :
              m \in 1..Len(config.recipes)}

\* the items of the configuration that are an output of some recipe
ConfigOutputs ==
    UNION {{config.recipes[m].outputs[j].item : j \in 1..Len(config.recipes[m].outputs)} :
              m \in 1..Len(config.recipes)}

AllItems == TargetItems \cup ConfigInputs \cup ConfigOutputs

\* the items x for which the model has a variable <prefix>_<x>
ItemsNamed(prefix) == {x \in AllItems : prefix \o x \in VarNames}

\* the number of rows of the constraint list that are exactly this row
RowCount(list, row) ==
    Cardinality({n \in 1..Len(RowsOf(list)) : RowsOf(list)[n] = row})

DomainOf(name) == model[CHOOSE n \in 1..Len(model) : model[n].name = name].domain

\* SOURCE_<x> + SOURCE_OUT_<x> = 0 and SOURCE_<x> <= 0, once each
SourceBookkeeping(x) ==
    /\ RowCount(<<"SOURCE", "CONSTRAINTS">>,
                Row("sum_zero", <<<<"SOURCE">> \o x, <<"SOURCE", "OUT">> \o x>>, <<>>)) = 1
    /\ RowCount(<<"SOURCE", "CONSTRAINTS">>, Row("le_zero", <<<<"SOURCE">> \o x>>, <<>>)) = 1

\* C11 as stated: SOURCE_<x> and SOURCE_OUT_<x> exist for exactly the items
\* that are a recipe input or the target, with their two constraints.
C11_Stated ==
    Solved =>
        /\ ItemsNamed(<<"SOURCE">>) = ConfigInputs \cup {config.target.item}
        /\ ItemsNamed(<<"SOURCE", "OUT">>) = ConfigInputs \cup {config.target.item}
        /\ \A x \in ItemsNamed(<<"SOURCE">>) : SourceBookkeeping(x)

\* C11 amended: SOURCE_<x> and SOURCE_OUT_<x> exist for exactly the items
\* that are an input of some recipe (a target that is only a recipe output
\* gets no source), with SOURCE_<x> + SOURCE_OUT_<x> = 0 and SOURCE_<x> <= 0.
C11_Sources ==
    Solved =>
        /\ ItemsNamed(<<"SOURCE">>) = ConfigInputs
        /\ ItemsNamed(<<"SOURCE", "OUT">>) = ConfigInputs
        /\ \A x \in ConfigInputs : SourceBookkeeping(x)
        /\ Len(RowsOf(<<"SOURCE", "CONSTRAINTS">>)) = 2 * Cardinality(ConfigInputs)

\* C11 witness: a solved model whose target is only a recipe output and has
\* no source, next to an input that has one.
C11_Witness ==
    /\ Solved
    /\ config.target.item \in ConfigOutputs \ ConfigInputs
    /\ <<"SOURCE">> \o config.target.item \notin VarNames
    /\ <<"SINK">> \o config.target.item \in VarNames
    /\ ConfigInputs # {}

\* SINK_<x> = SINK_IN_<x> and SINK_<x> >= 0, once each
SinkBookkeeping(x) ==
    /\ RowCount(<<"SINK", "CONSTRAINTS">>,
                Row("equal", <<<<"SINK">> \o x, <<"SINK", "IN">> \o x>>, <<>>)) = 1
    /\ RowCount(<<"SINK", "CONSTRAINTS">>, Row("ge_zero", <<<<"SINK">> \o x>>, <<>>)) = 1

\* C12 as stated: SINK_<x> and SINK_IN_<x> exist for exactly the items that
\* are a recipe output or the target; an item that is only a recipe input and
\* not the target has no sink.
C12_Stated ==
    Solved =>
        /\ ItemsNamed(<<"SINK">>) = ConfigOutputs \cup {config.target.item}
        /\ ItemsNamed(<<"SINK", "IN">>) = ConfigOutputs \cup {config.target.item}

\* C12 amended: SINK_<x> and SINK_IN_<x> exist for exactly the items that are
\* an input or an output of some recipe, with SINK_<x> = SINK_IN_<x> and
\* SINK_<x> >= 0; an item that is only a recipe input has a sink too.
C12_Sinks ==
    Solved =>
        /\ ItemsNamed(<<"SINK">>) = ConfigInputs \cup ConfigOutputs
        /\ ItemsNamed(<<"SINK", "IN">>) = ConfigInputs \cup ConfigOutputs
        /\ \A x \in ConfigInputs \cup ConfigOutputs : SinkBookkeeping(x)
        /\ Len(RowsOf(<<"SINK", "CONSTRAINTS">>))
               = 2 * Cardinality(ConfigInputs \cup ConfigOutputs)

\* C12 witness: a solved model with a sink for an item that is only a recipe
\* input and is not the target.
C12_Witness ==
    /\ Solved
    /\ \E x \in ConfigInputs \ (ConfigOutputs \cup {config.target.item}) :
          <<"SINK">> \o x \in VarNames /\ <<"SINK", "IN">> \o x \in VarNames

TargetConstraint ==
    RowsOf(<<"target">>) = <<Row("ge", <<<<"SINK">> \o config.target.item>>,
                                 <<config.target.quantity_per_second>>)>>

\* C14 as stated: solve emits SINK_<target.item> >= quantity_per_second, and a
\* target that no recipe produces or consumes does not make the build of the
\* model crash.
C14_Stated ==
    pc # "config" => (exc # "AttributeError" /\ (Solved => TargetConstraint))

\* One recipe a -> b and the target c: the rule of model.target raises
\* AttributeError, and the model has no SINK_c.
C14_Failing ==
    /\ Len(config.recipes) = 1
    /\ ConfigInputs = {<<"a">>} /\ ConfigOutputs = {<<"b">>}
    /\ config.target.item = <<"c">>
    /\ pc = "raised" /\ exc = "AttributeError"
    /\ <<"SINK", "c">> \notin VarNames

\* The build crashes this way exactly when the target is neither an input nor
\* an output of a recipe; a finished build has the target constraint.
C14_ElseHolds ==
    /\ Solved => TargetConstraint
    /\ exc = "AttributeError" => config.target.item \notin ConfigInputs \cup ConfigOutputs
    /\ Solved => config.target.item \in ConfigInputs \cup ConfigOutputs

-----------------------------------------------------------------------------
(* Solver: claims C15, C16, under SpecProcess.                             *)

Again == earlier # NoEarlier

\* the machine variables of the model, in the order the model declares them
MachineVars ==
    SelectSeq([n \in 1..Len(model) |-> model[n].name],
              LAMBDA name : Len(name) = 1 /\ name \notin {<<"objective">>, <<"target">>})

\* the model has machine M<m-1> for recipe m of the configuration: its ports
\* are the inputs and the outputs of that recipe
MachineOfRecipe(m) ==
    LET id == <<"M" \o ToString(m - 1)>>
        r == config.recipes[m]
    IN /\ MachineVars[m] = id
       /\ \A x \in AllItems :
             /\ (id \o <<"IN">> \o x \in VarNames)
                    <=> (\E j \in 1..Len(r.inputs) : r.inputs[j].item = x)
             /\ (id \o <<"OUT">> \o x \in VarNames)
                    <=> (\E j \in 1..Len(r.outputs) : r.outputs[j].item = x)

C16_Stated ==
    Again =>
        /\ model = solve(config.recipes, config.target, EmptyModel).comps
        /\ exc = solve(config.recipes, config.target, EmptyModel).exc

\* After solve([a, b -> b, c], c), solve([a -> b], b) returns a model that
\* still has the ports of the first machine and the source of b.
C16_Failing ==
    /\ Again /\ Solved /\ earlier.exc = ""
    /\ Len(earlier.config.recipes) = 1 /\ Len(earlier.config.recipes[1].inputs) = 2
    /\ Len(config.recipes) = 1 /\ Len(config.recipes[1].inputs) = 1
    /\ <<"M0", "OUT", "c">> \in VarNames /\ <<"SOURCE", "b">> \in VarNames
    /\ <<"M0", "OUT", "c">> \notin
           {c.name : c \in {solve(config.recipes, config.target, EmptyModel).comps[n] :
                       n \in 1..Len(solve(config.recipes, config.target, EmptyModel).comps)}}

\* The first invocation of a process does return the model of its own
\* recipes and target.
C16_FirstHolds ==
    (pc # "config" /\ ~Again) =>
        model = solve(config.recipes, config.target, EmptyModel).comps

-----------------------------------------------------------------------------
(* Solution extraction: claim C17                                           *)

Extracted == pc = "extracted"

\* the kind solve generated the name as
KindOf(name) ==
    CASE IsLinkName(name) -> "link"
      [] Len(name) = 1 -> "machine"
      [] name[1] = "SOURCE" /\ Len(name) = 2 -> "source"
      [] name[1] = "SOURCE" /\ name[2] = "OUT" -> "source_out"
      [] name[1] = "SOURCE" /\ name[2] = "TAX" -> "source_tax"
      [] name[1] = "SINK" /\ Len(name) = 2 -> "sink"
      [] name[1] = "SINK" /\ name[2] = "IN" -> "sink_in"
      [] name[2] = "IN" -> "machine_input"
      [] OTHER -> "machine_output"

IdsOf(collection) == {collection[n].id : n \in 1..Len(collection)}

\* the kinds the extractor filed the string under
KindsOf(str) ==
    {kind \in {"machine"} : \E n \in 1..Len(parsed.machines) : parsed.machines[n] = str}
    \cup {kind \in {"source"} : str \in IdsOf(parsed.sources)}
    \cup {kind \in {"source_out"} : str \in IdsOf(parsed.source_outs)}
    \cup {kind \in {"sink"} : str \in IdsOf(parsed.sinks)}
    \cup {kind \in {"sink_in"} : str \in IdsOf(parsed.sink_ins)}
    \cup {kind \in {"link"} : str \in IdsOf(parsed.links)}
    \cup {kind \in {"machine_input"} : str \in IdsOf(parsed.machine_inputs)}
    \cup {kind \in {"machine_output"} : str \in IdsOf(parsed.machine_outputs)}

\* the extractor recovered the fields the name was generated from
Recovered(name) ==
    LET str == NameString(name)
        kind == KindOf(name)
        Entry(collection) == collection[CHOOSE n \in 1..Len(collection) : collection[n].id = str]
    IN CASE kind = "machine" -> TRUE
         [] kind = "source" -> Entry(parsed.sources).item = NameString(Tail(name))
         [] kind = "source_out" ->
                Entry(parsed.source_outs).item = NameString(SubSeq(name, 3, Len(name)))
         [] kind = "sink" -> Entry(parsed.sinks).item = NameString(Tail(name))
         [] kind = "sink_in" ->
                Entry(parsed.sink_ins).item = NameString(SubSeq(name, 3, Len(name)))
         [] kind = "link" ->
                /\ Entry(parsed.links).start = NameString(ProducerOf(name))
                /\ Entry(parsed.links).end = NameString(ConsumerOf(name))
         [] kind = "machine_input" ->
                /\ Entry(parsed.machine_inputs).machine = NameString(<<name[1]>>)
                /\ Entry(parsed.machine_inputs).item = NameString(SubSeq(name, 3, Len(name)))
         [] kind = "machine_output" ->
                /\ Entry(parsed.machine_outputs).machine = NameString(<<name[1]>>)
                /\ Entry(parsed.machine_outputs).item = NameString(SubSeq(name, 3, Len(name)))

TaxNames == {v \in VarNames : KindOf(v) = "source_tax"}

\* C17 as stated: every name solve generated is filed under exactly its own
\* kind, with the machine id and the item it was generated from; a
\* SOURCE_TAX_<item> name is filed under no kind, in particular not as a source.
C17_Stated ==
    Extracted =>
        /\ \A v \in VarNames \ TaxNames :
               KindsOf(NameString(v)) = {KindOf(v)} /\ Recovered(v)
        /\ \A v \in TaxNames : KindsOf(NameString(v)) = {}

\* The failing case: the item b is consumed and produced, SOURCE_TAX_b exists
\* and the extractor files it as the source of an item named TAX_b.
C17_Failing ==
    /\ Extracted
    /\ source_tax_name(<<"b">>) \in VarNames
    /\ \E n \in 1..Len(parsed.sources) :
           /\ parsed.sources[n].id = NameString(source_tax_name(<<"b">>))
           /\ parsed.sources[n].item = <<"T", "A", "X", "_", "b">>

\* Away from the SOURCE_TAX names the extraction is exact: every other name
\* is filed under exactly its own kind with its fields recovered, and a
\* SOURCE_TAX name is filed under no kind but source.
C17_ElseHolds ==
    Extracted =>
        /\ \A v \in VarNames \ TaxNames :
               KindsOf(NameString(v)) = {KindOf(v)} /\ Recovered(v)
        /\ \A v \in TaxNames : KindsOf(NameString(v)) = {"source"}

-----------------------------------------------------------------------------
(* GameTime: claims C19 and C20, under SpecTime.                            *)

SameTime(x, y) == x.num * y.den = y.num * x.den

\* the duration in seconds the value was made with
MadeSeconds ==
    IF time.op = "from_ticks"
    THEN [num |-> time.arg.num, den |-> 20 * time.arg.den]
    ELSE time.arg

\* C19 as stated: as_seconds returns the duration the value was made with, s
\* after from_seconds(s) and n / 20 after from_ticks(n), in both revisions.
C19_Stated ==
    time.read = "as_seconds" =>
        SameTime(time.game_time, MadeSeconds) /\ SameTime(time.GameTime, MadeSeconds)

\* The failing case: GameTime.from_ticks(20).as_seconds() of game_time.py
\* is 0.05, not 1.
C19_Failing ==
    /\ time.op = "from_ticks" /\ time.arg.num = 20 /\ time.read = "as_seconds"
    /\ SameTime(time.game_time, [num |-> 1, den |-> 20])
    /\ ~SameTime(time.game_time, MadeSeconds)

\* What does hold: as_exact_seconds of game_time.py returns the duration the
\* value was made with; as_seconds of GameTime.py returns n / 20 after
\* from_ticks(n) and, after from_seconds(s), s raised to the next tick;
\* as_seconds of game_time.py is a whole number of ticks that is within half a
\* tick of a twentieth of the duration.
C19_ElseHolds ==
    time.read = "as_seconds" =>
        /\ SameTime(time.exact, MadeSeconds)
        /\ time.op = "from_ticks" => SameTime(time.GameTime, MadeSeconds)
        /\ time.op = "from_seconds" =>
               /\ time.GameTime.num * MadeSeconds.den >= MadeSeconds.num * time.GameTime.den
               /\ (time.GameTime.num - 1) * MadeSeconds.den < MadeSeconds.num * time.GameTime.den
        /\ time.game_time.den = 20
        /\ (2 * time.game_time.num - 1) * MadeSeconds.den <= 2 * MadeSeconds.num
        /\ 2 * MadeSeconds.num <= (2 * time.game_time.num + 1) * MadeSeconds.den

-----------------------------------------------------------------------------
(* The two-recipe chain: claim C18, under SpecChain.                        *)

Optimal == pc = "optimal"

\* the value of the variable, in 1 / Unit
ValueOf(name) == solution.values[name]

TargetRate == config.target.quantity_per_second

\* C18 as stated: for the target of 250 a second the optimum has 0.75 H2S
\* machines, 25 H2O machines making 500 hydrogen a second, SOURCE_water =
\* -12.5, SOURCE_sulfur = -0.25, SINK_oxygen = 12.5 and SOURCE_hydrogen = 0.
C18_Stated ==
    (Optimal /\ TargetRate = 250) =>
        /\ 4 * ValueOf(<<"M1">>) = 3 * Unit
        /\ ValueOf(<<"M0">>) = 25 * Unit
        /\ ValueOf(<<"M0", "OUT", "hydrogen">>) = 500 * Unit
        /\ 2 * ValueOf(<<"SOURCE", "water">>) = 0 - 25 * Unit
        /\ 4 * ValueOf(<<"SOURCE", "sulfur">>) = 0 - Unit
        /\ 2 * ValueOf(<<"SINK", "oxygen">>) = 25 * Unit
        /\ ValueOf(<<"SOURCE", "hydrogen">>) = 0

\* The failing case: with the durations objects of game_time.py the optimum
\* has 0.0375 H2S machines and 1.25 H2O machines, and SOURCE_water is -250.
C18_Failing ==
    /\ Optimal /\ TargetRate = 250 /\ solution.seconds = "game_time.py"
    /\ 10000 * ValueOf(<<"M1">>) = 375 * Unit
    /\ 4 * ValueOf(<<"M0">>) = 5 * Unit
    /\ ValueOf(<<"SOURCE", "water">>) = 0 - 250 * Unit

\* What does hold of the optimum, for every target T of the chain: no
\* hydrogen is bought, the H2O machines make 2 T hydrogen a second, T water
\* and T / 1000 sulfur are bought, T oxygen and T hydrogen sulfide reach
\* their sinks; with the durations objects of GameTime.py there are
\* 3 T / 1000 H2S machines and T / 10 H2O machines.
C18_ElseHolds ==
    Optimal =>
        /\ ValueOf(<<"SOURCE", "hydrogen">>) = 0
        /\ ValueOf(<<"M0", "OUT", "hydrogen">>) = 2 * TargetRate * Unit
        /\ ValueOf(<<"SOURCE", "water">>) = 0 - TargetRate * Unit
        /\ 1000 * ValueOf(<<"SOURCE", "sulfur">>) = 0 - TargetRate * Unit
        /\ ValueOf(<<"SINK", "oxygen">>) = TargetRate * Unit
        /\ ValueOf(<<"SINK", "hydrogen_sulfide">>) = TargetRate * Unit
        /\ solution.seconds = "GameTime.py" =>
               /\ 1000 * ValueOf(<<"M1">>) = 3 * TargetRate * Unit
               /\ 10 * ValueOf(<<"M0">>) = TargetRate * Unit

-----------------------------------------------------------------------------
(* GameTime arithmetic: claim C21, under SpecArith.                         *)

Less(x, y) == x.num * y.den < y.num * x.den

\* C21 as stated: the duration is never negative, a - b raises whenever
\* a < b, multiplication by a negative scalar raises, and construction from
\* negative ticks or seconds raises.
C21_Stated ==
    /\ time.seconds.num >= 0
    /\ (calc.op = "sub" /\ Less(calc.left, calc.right)) => calc.exc # ""
    /\ (calc.op = "mul" /\ calc.right.num < 0) => calc.exc # ""
    /\ (calc.op \in {"from_ticks", "from_seconds"} /\ calc.right.num < 0) => calc.exc # ""

\* The failing case: GameTime.from_seconds(0.125) - GameTime.from_seconds(0.375)
\* raises nothing and is the duration 0.
C21_Failing ==
    /\ calc.op = "sub" /\ calc.exc = ""
    /\ calc.left = [num |-> 1, den |-> 8] /\ calc.right = [num |-> 3, den |-> 8]
    /\ time.op = "sub" /\ time.seconds.num = 0

\* What does hold: the duration is never negative; multiplication by a
\* negative scalar, division by a scalar <= 0 and construction from a
\* negative argument raise; a - b raises when b is more than a second longer
\* than a, and only when b is less than a second shorter than a; a + b
\* never raises.
C21_ElseHolds ==
    /\ time.seconds.num >= 0 /\ time.seconds.den > 0
    /\ (calc.op = "mul" /\ calc.right.num < 0) => calc.exc = "ValueError"
    /\ (calc.op = "truediv" /\ calc.right.num <= 0) => calc.exc = "ValueError"
    /\ (calc.op \in {"from_ticks", "from_seconds"} /\ calc.right.num < 0) =>
           calc.exc = "ValueError"
    /\ (calc.op = "sub" /\ Less(Plus(calc.left, [num |-> 1, den |-> 1]), calc.right)) =>
           calc.exc = "ValueError"
    /\ (calc.op = "sub" /\ calc.exc # "") => Less(calc.left, Plus(calc.right, [num |-> 1, den |-> 1]))
    /\ calc.op = "add" => calc.exc = ""

-----------------------------------------------------------------------------
(* Voltage arithmetic: claim C22, under SpecVoltArith.                      *)

\* the mathematical result of the operation that made the Voltage is negative
NegativeResult ==
    CASE origin.op # calc.op -> FALSE
      [] calc.op = "add" -> calc.left.num + calc.right.num < 0
      [] calc.op = "sub" -> calc.left.num - calc.right.num < 0
      [] calc.op = "rsub" -> calc.right.num - calc.left.num < 0
      [] calc.op = "mul" -> calc.left.num * calc.right.num < 0
      [] OTHER -> FALSE

\* C22: every Voltage has a value >= 0: the constructor clamps a negative
\* argument to 0 and every +, - (either order) and * returns a Voltage
\* without raising, Voltage(0) when the mathematical result is negative.
C22_NonNegative ==
    /\ volt >= 0
    /\ calc.exc = ""
    /\ (origin.op = "init" /\ origin.arg < 0) => volt = 0
    /\ NegativeResult => volt = 0

\* 8 - 50, 50 - 128 the other way round, and 8 * -1.5 came out as Voltage(0)
C22_Witness ==
    /\ calc.op \in {"sub", "rsub", "mul"} /\ NegativeResult /\ volt = 0
    /\ calc.left.num > 0

-----------------------------------------------------------------------------
(* The industrial centrifuge: claims C23 and C30, under SpecRecipe.         *)

Centrifuged == recipe # <<>> /\ req.policy = "centrifuge"

\* min(2 T, floor(V_max(T) / (v * 0.9 * 2 T))) for the request
ComputedParallels ==
    Min(2 * req.machine_tier,
        (10 * from_tier(req.machine_tier)) \div (9 * req.eut * 2 * req.machine_tier))

\* every stack of the recipe holds count times the quantity handed in
ScaledBy(count) ==
    /\ \A i \in 1..Len(BaseInputs) :
           recipe[1].inputs[i].quantity = BaseInputs[i].quantity * count
    /\ \A i \in 1..Len(BaseOutputs) :
           recipe[1].outputs[i].quantity = BaseOutputs[i].quantity * count

\* C23 as stated: the parallel count is the computed count, a computed count
\* below 1 counting as 1, and every stack quantity is multiplied by it.
C23_Stated ==
    Centrifuged =>
        /\ recipe[1].parallels = Max(1, ComputedParallels)
        /\ ScaledBy(Max(1, ComputedParallels))

\* The failing case: the centrifuge at MV given eut 100 computes 0 parallels
\* and every stack of the recipe has quantity 0.
C23_Failing ==
    /\ req = [policy |-> "centrifuge", machine_tier |-> 2, ticks |-> 200, eut |-> 100]
    /\ recipe # <<>> /\ recipe[1].parallels = 0
    /\ \A i \in 1..Len(recipe[1].outputs) : recipe[1].outputs[i].quantity = 0
    /\ \A i \in 1..Len(recipe[1].inputs) : recipe[1].inputs[i].quantity = 0

\* What does hold: the count is the computed count as it is, every stack is
\* multiplied by it, and it is never above twice the rank of the machine tier.
C23_ElseHolds ==
    Centrifuged =>
        /\ recipe[1].parallels = ComputedParallels
        /\ ScaledBy(ComputedParallels)
        /\ recipe[1].parallels <= 2 * req.machine_tier
        /\ recipe[1].parallels >= 0

-----------------------------------------------------------------------------
(* Zero durations: claim C24, under SpecRecipe.                             *)

\* the constructor has returned or raised
ConstructorDone == recipe # <<>> \/ raised # ""

\* C24 as stated: a recipe whose duration is zero ticks is rejected at
\* construction with an error, under every policy and machine tier.
C24_Stated ==
    (ConstructorDone /\ req.ticks = 0) => (raised # "" /\ recipe = <<>>)

\* The failing case: the standard policy, an LV machine and an LV recipe of
\* zero ticks: the recipe is constructed and its duration is zero ticks.
C24_Failing ==
    /\ req = [policy |-> "standard", machine_tier |-> 1, ticks |-> 0, eut |-> 8]
    /\ recipe # <<>> /\ raised = "" /\ NewTicks = 0
    /\ ZeroSeconds(recipe[1].duration)

\* What does hold: no constructor raises because of the duration (a zero
\* duration is refused exactly when the same request with one tick is, that
\* is for its tier or for a zero voltage in the centrifuge); a constructed
\* recipe of zero ticks keeps zero ticks when the recipe is of the machine's
\* tier under the standard and perfect policies and has one tick otherwise.
C24_ElseHolds ==
    (ConstructorDone /\ req.ticks = 0) =>
        /\ raised # "" <=>
               \/ req.machine_tier < tier(Voltage(req.eut))
               \/ req.policy = "centrifuge" /\ Voltage(req.eut) = 0
        /\ recipe # <<>> =>
               NewTicks = IF req.policy # "centrifuge"
                             /\ req.machine_tier = tier(Voltage(req.eut))
                          THEN 0 ELSE 1

-----------------------------------------------------------------------------
(* The centrifuge's overclock exponent: claim C30, under SpecRecipe.        *)

\* the tier of recipe_voltage * parallels
ParallelTier == tier(Voltage(Voltage(req.eut) * recipe[1].parallels))

\* C30 as stated: for a centrifuge recipe that passes the tier check with
\* base voltage >= 1 the tier of v * parallels is at most the machine tier
\* and the new duration is at most ceil(orig_ticks / 1.8).
C30_Stated ==
    (Centrifuged /\ req.eut >= 1) =>
        /\ ParallelTier <= req.machine_tier
        /\ NewTicks <= CeilDiv(10 * req.ticks, 18)

\* The failing case: a centrifuge recipe of zero ticks, which no constructor
\* refuses, has a duration of 1 tick, longer than ceil(0 / 1.8) = 0.
C30_Failing ==
    /\ req = [policy |-> "centrifuge", machine_tier |-> 2, ticks |-> 0, eut |-> 8]
    /\ recipe # <<>> /\ NewTicks = 1
    /\ ParallelTier <= req.machine_tier

\* What does hold: the tier of v * parallels is never above the machine
\* tier, and for a duration of at least one tick the new duration is at most
\* ceil(orig_ticks / 1.8).
C30_ElseHolds ==
    (Centrifuged /\ req.eut >= 1) =>
        /\ ParallelTier <= req.machine_tier
        /\ req.ticks >= 1 => NewTicks <= CeilDiv(10 * req.ticks, 18)
        /\ NewTicks >= 1

-----------------------------------------------------------------------------
(* Items: claim C25, under SpecItems.                                       *)

\* the calls to make_item so far
ItemCalls == {n \in 1..Len(item_cache.calls) : item_cache.calls[n].factory = "make_item"}

HasSpace(str) == \E n \in 1..Len(str) : str[n] = " "

\* C25 as stated: an Item is identified by its normalized name, every space
\* replaced by an underscore; make_item yields one Item per name; the item
\* names in generated variable names contain no spaces.
C25_Stated ==
    /\ \A n \in ItemCalls :
           /\ item_cache.calls[n].item.name = ItemName(item_cache.calls[n].arg)
           /\ ~HasSpace(item_in_link_string(machine_name(0), item_cache.calls[n].item.name))
    /\ \A n, m \in ItemCalls :
           item_cache.calls[n].arg = item_cache.calls[m].arg =>
               item_cache.calls[n].item = item_cache.calls[m].item

\* The failing case: make_item("a b") is the Item named "a b" and the
\* variable name M0_IN_a b made from it has a space.
C25_Failing ==
    \E n \in ItemCalls :
        /\ item_cache.calls[n].arg = <<"a", " ", "b">>
        /\ item_cache.calls[n].item.name = <<"a", " ", "b">>
        /\ item_in_link_string(machine_name(0), item_cache.calls[n].item.name)
               = <<"M", "0", "_", "I", "N", "_", "a", " ", "b">>

\* What does hold: make_item keeps the name as given and yields the same
\* instance for the same name and different instances for different names;
\* ItemName of main.py replaces every space by an underscore.
C25_ElseHolds ==
    /\ \A n \in ItemCalls : item_cache.calls[n].item.name = item_cache.calls[n].arg
    /\ \A n, m \in ItemCalls :
           item_cache.calls[n].arg = item_cache.calls[m].arg <=>
               item_cache.calls[n].item.id = item_cache.calls[m].item.id
    /\ \A n \in 1..Len(item_cache.calls) :
           item_cache.calls[n].factory = "ItemName" =>
               /\ ~HasSpace(item_cache.calls[n].item.name)
               /\ Len(item_cache.calls[n].item.name) = Len(item_cache.calls[n].arg)

-----------------------------------------------------------------------------
(* build_solution_graph: claims C26 .. C29, under SpecGraph.               *)

Built == pc = "built"

Failed == pc = "failed"

Nodes == {graph.nodes[n] : n \in 1..Len(graph.nodes)}

Edges == {graph.edges[n] : n \in 1..Len(graph.edges)}

\* the links solve made, as producer and consumer port
SolvedLinks == {links(config.recipes)[n] : n \in 1..Len(links(config.recipes))}

\* the ItemDirectedEdges from the node of that producer port to the node of
\* that consumer port
EdgesOf(link) ==
    {n \in 1..Len(graph.edges) :
        /\ graph.edges[n].kind = "ItemDirectedEdge"
        /\ graph.edges[n].start.id = NameString(link.out)
        /\ graph.edges[n].end.id = NameString(link.in)}

\* the link has exactly one edge when its value is not zero, with that
\* value and the item of the consumer node, and none when it is zero
LinkDrawn(link) ==
    LET value == solution.values[link_name(link.out, link.in)]
    IN IF value = 0 THEN EdgesOf(link) = {}
       ELSE /\ Cardinality(EdgesOf(link)) = 1
            /\ \A n \in EdgesOf(link) :
                   /\ graph.edges[n].quantity = value
                   /\ graph.edges[n].item = graph.edges[n].end.item
                   /\ graph.edges[n].start \in Nodes /\ graph.edges[n].end \in Nodes

\* C26 as stated: once build_solution_graph is over, every link variable
\* with a nonzero value has exactly one ItemFlow edge from its producer-port
\* node to its consumer-port node, with the value as quantity and the item
\* of the consumer side, and every link variable of value zero has no edge.
C26_Stated == (Built \/ Failed) => \A link \in SolvedLinks : LinkDrawn(link)

\* The failing case: one machine making b of TO_b, one unit through every
\* link; the builder reads M0_IN_TO_b as a link from M0_IN to b and raises
\* KeyError, no edge drawn.
C26_Failing ==
    /\ Failed /\ graph.exc = "KeyError"
    /\ config.recipes = <<GraphRecipe(<<"TO", "b">>, <<"b">>)>>
    /\ solution.values[<<"M0", "IN", "TO", "b">>] = 1
    /\ solution.values[<<"M0", "OUT", "b", "TO", "SINK", "IN", "b">>] = 1
    /\ ~DictHas(graph.map, <<"M", "0", "_", "I", "N">>)
    /\ \A link \in SolvedLinks : EdgesOf(link) = {}

\* What does hold: whenever build_solution_graph returns a graph, the
\* links are drawn as C26 says.
C26_ElseHolds == Built => \A link \in SolvedLinks : LinkDrawn(link)

\* 1e-9 in the unit of the values, 1e-12
Nano == 1000

\* the nodes and edges that carry the value of a variable the extractor
\* filters by value
Valued ==
    {node \in Nodes : node.kind # "MachineNode"}
    \cup {edge \in Edges : edge.kind = "ItemDirectedEdge"}

\* C27 as stated: no node or edge is created for a source, sink, junction,
\* port or link variable whose absolute value is at most 1e-9.
C27_Stated == \A x \in Valued : Abs(x.quantity) > Nano

\* The failing case: one machine making b of a, 1e-12 through it: the
\* source, both junctions, both ports, the sink and the two links are drawn.
C27_Failing ==
    /\ Built
    /\ config.recipes = <<GraphRecipe(<<"a">>, <<"b">>)>>
    /\ solution.values[<<"SOURCE", "a">>] = 0 - 1
    /\ {x.quantity : x \in Valued} = {1, 0 - 1}
    /\ Len(graph.nodes) = 7 /\ Len(graph.edges) = 6

\* What does hold: math.isclose(value, 0.0) is true of zero alone, so that
\* no node or edge has a quantity of zero and, in a graph that is returned,
\* every filtered variable whose value is not zero has its node.
C27_ElseHolds ==
    /\ \A x \in Valued : x.quantity # 0
    /\ Built =>
           \A e \in {parsed.sources[n] : n \in 1..Len(parsed.sources)}
                    \cup {parsed.source_outs[n] : n \in 1..Len(parsed.source_outs)}
                    \cup {parsed.sinks[n] : n \in 1..Len(parsed.sinks)}
                    \cup {parsed.sink_ins[n] : n \in 1..Len(parsed.sink_ins)}
                    \cup {[id |-> parsed.machine_inputs[n].id, item |-> parsed.machine_inputs[n].item] :
                             n \in 1..Len(parsed.machine_inputs)}
                    \cup {[id |-> parsed.machine_outputs[n].id, item |-> parsed.machine_outputs[n].item] :
                             n \in 1..Len(parsed.machine_outputs)} :
               (Value(e.id) # 0) <=>
                   (\E node \in Nodes : node.id = e.id /\ node.quantity = Value(e.id))

\* the place of a node in the order of the loops
Rank(node) ==
    CASE node.kind = "SourceNode" -> 1
      [] node.kind = "ItemNode" /\ HasAt(node.id, 1, <<"S", "O", "U", "R", "C", "E">>) -> 2
      [] node.kind = "SinkNode" -> 3
      [] node.kind = "ItemNode" /\ HasAt(node.id, 1, <<"S", "I", "N", "K">>) -> 4
      [] node.kind = "MachineNode" -> 5
      [] node.kind = "MachineInputNode" -> 6
      [] node.kind = "MachineOutputNode" -> 7
      [] OTHER -> 0

\* the edge a junction or port of that rank comes with
Implicit(node) ==
    {edge \in Edges :
        CASE Rank(node) = 2 -> edge.end = node /\ Rank(edge.start) = 1
          [] Rank(node) = 4 -> edge.start = node /\ Rank(edge.end) = 3
          [] Rank(node) = 6 -> edge.start = node /\ Rank(edge.end) = 5
          [] Rank(node) = 7 -> edge.end = node /\ Rank(edge.start) = 5
          [] OTHER -> FALSE}

\* C28: at every point of build_solution_graph the nodes stand in the order
\* Source, SourceOut junction, Sink, SinkIn junction, Machine, input port,
\* output port, every edge joins two nodes that are in the graph, and
\* every junction and port that stays in the graph has its implicit edge.
C28_NodeOrder ==
    /\ \A n, m \in 1..Len(graph.nodes) :
           n < m => Rank(graph.nodes[n]) <= Rank(graph.nodes[m])
    /\ \A node \in Nodes : Rank(node) # 0
    /\ \A edge \in Edges : edge.start \in Nodes /\ edge.end \in Nodes
    /\ graph.exc = "" =>
           \A node \in Nodes : Rank(node) \in {2, 4, 6, 7} => Implicit(node) # {}

\* a graph with a node of every kind and the four implicit edges
C28_Witness ==
    /\ Built
    /\ {Rank(node) : node \in Nodes} = 1..7
    /\ \A node \in Nodes : Rank(node) \in {2, 4, 6, 7} => Implicit(node) # {}

\* the items of the configuration have names free of IN, OUT and TO
PlainNames ==
    \A m \in 1..Len(config.recipes) :
        \A stack \in {config.recipes[m].inputs[1], config.recipes[m].outputs[1]} :
            stack.item \in {<<"a">>, <<"b">>, <<"c">>}

\* C29 as stated: on every point of the model that solve emits,
\* build_solution_graph completes without a failed node lookup, whatever
\* the names of the items.
C29_Stated == graph.exc # "KeyError"

\* The failing case: one machine making b of OUT_b, one unit through it;
\* SOURCE_OUT_b, the source of OUT_b, is filed as a junction and its
\* source SOURCE_b is looked up, which no node has.
C29_Failing ==
    /\ Failed /\ graph.exc = "KeyError"
    /\ config.recipes = <<GraphRecipe(<<"OUT", "b">>, <<"b">>)>>
    /\ solution.values[<<"SOURCE", "OUT", "b">>] = 0 - 1
    /\ \E e \in {parsed.source_outs[n] : n \in 1..Len(parsed.source_outs)} :
           NameString(<<"SOURCE", "OUT", "b">>) = e.id
    /\ ~DictHas(graph.map, NameString(<<"SOURCE", "b">>))
    /\ graph.edges = <<>>

\* What does hold: with item names free of IN, OUT and TO no lookup fails
\* and the graph is returned.
C29_ElseHolds == PlainNames => ~Failed /\ graph.exc = ""

====
